---- MODULE Spec2Model ----
(***************************************************************************)
(* Model of the batch orchestration use cases (generateBatch,              *)
(* transformBatch, transformMany, the CLI one-to-many handler) and of the  *)
(* optical appearance transform of the color palette generator.            *)
(*                                                                         *)
(* Numbers are scaled to integers: lightness in percent (0.57 -> 57),      *)
(* chroma in hundredths (0.15 -> 15), hue in whole degrees, alpha in       *)
(* percent.                                                                *)
(***************************************************************************)
EXTENDS Integers, Sequences, FiniteSets, TLC

\* ------------------------------------------------------------------ bounds
MaxItems == 3      \* most outcomes (pairs, targets) of one invocation
MaxTransformations == 2  \* most transformations of one transformBatch call
MaxClock == 2      \* clock values are 0..MaxClock
MaxVersion == 2    \* versions of the pattern source a load may observe

VARIABLES
  op,          \* the use case that was invoked
  input,       \* its input record
  pc,          \* "start" | "items" | "collected" | "done"
  loads,       \* number of loadPattern calls made so far
  pattern,     \* the pattern held by the invocation (NoPattern before the load)
  status,      \* task -> "pending" | "running" | "done"
  results,     \* task -> Pending, or the outcome the task produced
  completed,   \* tasks in the order they completed
  acc,         \* the success/failure split, once computed
  clockReads,  \* one record per read of the clock
  displayed,   \* what was shown on the console, in order
  outcome      \* the Exit of the invocation

vars == <<op, input, pc, loads, pattern, status, results, completed, acc,
          clockReads, displayed, outcome>>

\* ------------------------------------------------------------ plain values
NoPattern == [source |-> "", version |-> 0]
Pending == [_tag |-> "Pending"]
NoOutcome == [_tag |-> "Running"]
NoAcc == [computed |-> FALSE, palettes |-> <<>>, failures |-> <<>>]

Right(v) == [_tag |-> "Right", right |-> v]
Left(e) == [_tag |-> "Left", left |-> e]
Some(v) == [_tag |-> "Some", value |-> v]
None == [_tag |-> "None"]

Min(a, b) == IF a <= b THEN a ELSE b

IsLeft(e) == e._tag = "Left"
IsRight(e) == e._tag = "Right"

RECURSIVE SeqsUpTo(_, _)
\* all sequences over S of length 0..n
SeqsUpTo(S, n) ==
  IF n = 0 THEN {<<>>}
  ELSE LET shorter == SeqsUpTo(S, n - 1)
       IN  shorter \cup {Append(s, x) : s \in {q \in shorter : Len(q) = n - 1}, x \in S}

RECURSIVE JoinStrings(_, _)
\* Array.prototype.join
JoinStrings(s, sep) ==
  IF s = <<>> THEN ""
  ELSE IF Len(s) = 1 THEN s[1]
  ELSE s[1] \o sep \o JoinStrings(Tail(s), sep)

\* ----------------------------------------------------------- color strings
InvalidColorStrings == {"invalid-color", "#GGGGGG"}

\* parseColorStringToOKLCH succeeds on the string
ParseOK(s) == s \notin InvalidColorStrings

\* the OKLCH color a valid string denotes
ParsedColor(s) ==
  CASE s = "#2D72D2" -> [l |-> 57, c |-> 15, h |-> 259, alpha |-> 100]
    [] s = "#238551" -> [l |-> 55, c |-> 12, h |-> 155, alpha |-> 100]
    [] s = "#DB2C6F" -> [l |-> 59, c |-> 21, h |-> 4, alpha |-> 100]
    [] s = "oklch(1 0.2 30)" -> [l |-> 100, c |-> 20, h |-> 30, alpha |-> 100]
    [] s = "oklch(0.98 0.01 155)" -> [l |-> 98, c |-> 1, h |-> 155, alpha |-> 100]
    [] OTHER -> [l |-> 50, c |-> 0, h |-> 0, alpha |-> 100]

\* parseColorStringToOKLCH: Either<ParseError, OKLCHColor>
parseColorStringToOKLCH(s) ==
  IF ParseOK(s) THEN Right(ParsedColor(s))
  ELSE Left([_tag |-> "ParseError", message |-> "Invalid color string: " \o s])

\* --------------------------------------------------------- transformation.ts
\* a hue that is not a number (undefined / NaN)
NaN == 99999

\* JavaScript's % takes the sign of the dividend
JsRem(a, n) == IF a >= 0 THEN a % n ELSE -((-a) % n)

\* a negative hue smaller than half the spacing of the doubles at 360, such
\* as -1e-17: hue % 360 leaves it as it is, and adding 360 rounds to 360
TinyNegative == -99998

normalizeHue(hue) ==
  IF hue = NaN THEN NaN
  ELSE IF hue = TinyNegative THEN 360
  ELSE LET normalized == JsRem(hue, 360)
       IN  IF normalized < 0 THEN normalized + 360 ELSE normalized

\* variant: the plain difference, not wrapped
PlainDifference(h1, h2) == h2 - h1

\* hueDifference(h1, h2)
hueDifference(h1, h2) ==
  LET diff == JsRem(h2 - h1 + 180, 360) - 180
  IN  IF diff < -180 THEN diff + 360 ELSE diff

\* The sRGB gamut as culori sees it: the largest displayable chroma at a
\* lightness and hue.  Black and white admit no chroma; greens reach further
\* than blues.
GamutMaxChroma(l, h) ==
  LET room == Min(l, 100 - l)
      reach == IF h >= 90 /\ h < 180 THEN 60
               ELSE IF h >= 180 /\ h < 300 THEN 40
               ELSE 55
  IN  (room * reach) \div 100

\* culori.displayable: a zero chroma ignores the hue, a NaN hue with chroma
\* converts to NaN channels
isDisplayable(color) ==
  /\ color.l >= 0 /\ color.l <= 100
  /\ \/ color.c = 0
     \/ /\ color.h # NaN
        /\ color.c <= GamutMaxChroma(color.l, color.h)

\* variant: the color is handed back unclamped
NoClampChroma(color) == color

\* culori.clampChroma(color, "oklch"): lowers the chroma until displayable
clampChroma(color) ==
  IF isDisplayable(color) THEN color
  ELSE IF ~isDisplayable([color EXCEPT !.c = 0])
       THEN [color EXCEPT !.c = 0, !.l = IF color.l < 0 THEN 0 ELSE 100]
       ELSE [color EXCEPT !.c = IF color.h = NaN THEN 0
                                ELSE GamutMaxChroma(color.l, color.h)]

\* variant: the clamped color comes back opaque
ClampDropsAlpha(color) == Right([clampChroma(color) EXCEPT !.alpha = 100])

\* clampToGamut: Either<ColorConversionError, OKLCHColor>
clampToGamut(color) == Right(clampChroma(color))

\* variant: the target's hue taken as it comes
CandidateRawHue(reference, target) ==
  [l |-> reference.l, c |-> reference.c, h |-> target.h, alpha |-> reference.alpha]

\* the color built from the reference's L, C, alpha and the target's hue
Candidate(reference, target) ==
  [l |-> reference.l, c |-> reference.c, h |-> normalizeHue(target.h),
   alpha |-> reference.alpha]

\* variant: any loss of chroma counts as a lost hue
HueLostOnAnyLoss(clamped, transformed) == clamped.c < transformed.c

\* variant: a collapse to gray goes unnoticed
HueNeverLost(clamped, transformed) == FALSE

\* the test that makes the transform fail after clamping
HueLost(clamped, transformed) == clamped.c = 0 /\ transformed.c > 0

\* variant: a gray reference keeps its own hue
AchromaticReferenceOwnHue(reference, target) ==
  [l |-> reference.l, c |-> 0, h |-> normalizeHue(reference.h), alpha |-> reference.alpha]

\* the result for a gray reference: no chroma, the target's hue preserved
AchromaticReferenceResult(reference, target) ==
  [l |-> reference.l, c |-> 0, h |-> normalizeHue(target.h), alpha |-> reference.alpha]

\* variant: the reference's hue is passed on as it comes
AchromaticTargetRawHue(reference, target) ==
  [l |-> reference.l, c |-> reference.c, h |-> reference.h, alpha |-> reference.alpha]

\* the result for a gray target: the reference with its own hue
AchromaticTargetResult(reference, target) ==
  [l |-> reference.l, c |-> reference.c, h |-> normalizeHue(reference.h),
   alpha |-> reference.alpha]

\* applyOpticalAppearance: Either<ColorTransformationError | ColorConversionError, OKLCHColor>
applyOpticalAppearance(reference, target) ==
  LET transformed == Candidate(reference, target)
  IN  IF reference.c = 0
      THEN Right(AchromaticReferenceResult(reference, target))
      ELSE IF target.c = 0 \/ target.h = NaN
      THEN Right(AchromaticTargetResult(reference, target))
      ELSE IF isDisplayable(transformed)
      THEN Right(transformed)
      ELSE LET clampResult == clampToGamut(transformed)
           IN  IF IsLeft(clampResult) THEN clampResult
               ELSE IF HueLost(clampResult.right, transformed)
               THEN Left([_tag |-> "ColorTransformationError",
                          reference |-> reference, target |-> target,
                          reason |-> "Transformed color is out of gamut and clamping reduced chroma to 0, losing hue information"])
               ELSE Right(clampResult.right)

\* reference lightness below 0.05 or above 0.95 is not viable
MinViableLightness == 5
MaxViableLightness == 95

\* variant: half of the chroma may be lost
ChromaLossAtMostHalf(referenceC, clampedC) ==
  IF referenceC > 0 THEN 2 * (referenceC - clampedC) <= referenceC ELSE TRUE

\* chromaLoss < 0.5, with chromaLoss = (reference.c - clamped.c) / reference.c
ChromaLossAcceptable(referenceC, clampedC) ==
  IF referenceC > 0 THEN 2 * (referenceC - clampedC) < referenceC ELSE TRUE

\* isTransformationViable: Either<ColorTransformationError, boolean>
isTransformationViable(reference, target) ==
  IF reference.l < MinViableLightness THEN Right(FALSE)
  ELSE IF reference.l > MaxViableLightness THEN Right(FALSE)
  ELSE IF reference.c = 0 /\ target.c = 0 THEN Right(TRUE)
  ELSE LET testTransform == Candidate(reference, target)
       IN  IF isDisplayable(testTransform) THEN Right(TRUE)
           ELSE LET clampResult == clampToGamut(testTransform)
                IN  IF IsLeft(clampResult) THEN Right(FALSE)
                    ELSE Right(ChromaLossAcceptable(reference.c, clampResult.right.c))

\* oklchToHex: the hex rendering of a color (alpha dropped when opaque)
oklchToHex(color) ==
  Right("#" \o ToString(color.l) \o "-" \o ToString(color.c) \o "-" \o ToString(color.h)
          \o (IF color.alpha = 100 THEN "" ELSE "-" \o ToString(color.alpha)))

\* ------------------------------------------------------ generatePalette.ts
\* generatePaletteWithPattern: Either<GeneratePaletteError, PaletteResult>
generatePaletteWithPattern(inp, pat) ==
  IF ParseOK(inp.inputColor) /\ inp.paletteName # ""
  THEN Right([name |-> inp.paletteName,
              anchorStop |-> inp.anchorStop,
              inputColor |-> inp.inputColor,
              outputFormat |-> inp.outputFormat,
              pattern |-> pat])
  ELSE Left([_tag |-> "GeneratePaletteError",
             message |-> "Failed to generate palette for " \o inp.inputColor])

\* -------------------------------------------------------- generateBatch.ts


\* generateBatch.ts line 63: the loader passed in by the caller either fails
\* or yields the pattern its source holds at that moment
LoadPatternResults(source) ==
  {Right([source |-> source, version |-> v]) : v \in 1..MaxVersion}
    \cup {Left([_tag |-> "PatternLoadError",
                message |-> "Failed to load pattern from " \o source])}

\* variant: an item re-reads the pattern source
LoadablePatterns ==
  {r.right : r \in {x \in LoadPatternResults(input.patternSource) : IsRight(x)}}

\* the pattern handed to generatePaletteWithPattern by a batch item
ItemPatterns == {pattern}

\* variant: results listed in the order the items completed
ForEachResultsByCompletion(n) == [i \in 1..n |-> results[completed[i]]]

\* Effect.forEach returns its results in input order
ForEachResults(n) == [i \in 1..n |-> results[<<i, 1>>]]

\* Arr.getSomes(Arr.map(results, Either.getRight))
GetRights(rs) ==
  LET rights == SelectSeq(rs, IsRight)
  IN  [k \in 1..Len(rights) |-> rights[k].right]

\* Arr.zip truncates to the shorter array
Zip(xs, ys) == [i \in 1..Min(Len(xs), Len(ys)) |-> <<xs[i], ys[i]>>]

ZippedIsLeft(z) == IsLeft(z[2])

extractFailures(pairs, rs) ==
  LET lefts == SelectSeq(Zip(pairs, rs), ZippedIsLeft)
  IN  [k \in 1..Len(lefts) |->
         [color |-> lefts[k][1].color,
          stop |-> lefts[k][1].stop,
          error |-> lefts[k][2].left.message]]

\* variant: the colors alone
formatFailureColors(failures) ==
  JoinStrings([k \in 1..Len(failures) |-> failures[k].color], ", ")

formatFailures(failures) ==
  JoinStrings([k \in 1..Len(failures) |->
                 failures[k].color \o " (" \o failures[k].error \o ")"], ", ")

\* variant: any failure fails the batch
SomeFailure(palettes) == Len(palettes) < Cardinality(DOMAIN status)

\* variant: the batch never fails
NeverNoSuccess(palettes) == FALSE

\* the batch fails when no palette was generated
NoSuccess(palettes) == palettes = <<>>

\* ---------------------------------------------------------------- the clock
ClockValues == 0..MaxClock

\* new Date(millis).toISOString()
ToISOString(millis) == "1970-01-01T00:00:00.00" \o ToString(millis) \o "Z"

\* variant: only the epoch is accepted
isEpochTimestamp(s) == s = "1970-01-01T00:00:00.000Z"

\* !isNaN(Date.parse(s))
isValidISOTimestamp(s) == \E m \in ClockValues : s = ToISOString(m)

Failure(e) == [_tag |-> "Failure", error |-> e]
Success(v) == [_tag |-> "Success", value |-> v]

Unsettled == Cardinality({t \in DOMAIN status : status[t] # "done"})

ClockRead(millis) ==
  [millis |-> millis, unsettled |-> Unsettled, split |-> acc.computed, at |-> pc]

\* ------------------------------------------------------------------ tasks
NewTasks(ids) ==
  /\ status = [t \in ids |-> "pending"]
  /\ results = [t \in ids |-> Pending]

StartTask(t) ==
  /\ pc = "items"
  /\ t \in DOMAIN status
  /\ status[t] = "pending"
  /\ status' = [status EXCEPT ![t] = "running"]

FinishTask(t, r) ==
  /\ pc = "items"
  /\ t \in DOMAIN status
  /\ status[t] = "running"
  /\ status' = [status EXCEPT ![t] = "done"]
  /\ results' = [results EXCEPT ![t] = r]
  /\ completed' = Append(completed, t)

AllSettled == \A t \in DOMAIN status : status[t] = "done"

\* ---------------------------------------------------- generateBatch actions
GenerateBatchLoad ==
  /\ op = "generateBatch" /\ pc = "start"
  /\ loads' = loads + 1
  /\ \E r \in LoadPatternResults(input.patternSource) :
       IF IsRight(r)
       THEN /\ pattern' = r.right
            /\ pc' = "items"
            /\ UNCHANGED outcome
       ELSE /\ outcome' = Failure(r.left)
            /\ pc' = "done"
            /\ UNCHANGED pattern
  /\ UNCHANGED <<op, input, status, results, completed, acc, clockReads, displayed>>

GenerateBatchStartItem(i) ==
  /\ op = "generateBatch"
  /\ StartTask(<<i, 1>>)
  /\ UNCHANGED <<op, input, pc, loads, pattern, results, completed, acc,
                 clockReads, outcome, displayed>>

GenerateBatchFinishItem(i) ==
  /\ op = "generateBatch"
  /\ \E p \in ItemPatterns :
       FinishTask(<<i, 1>>,
         generatePaletteWithPattern(
           [inputColor |-> input.pairs[i].color,
            anchorStop |-> input.pairs[i].stop,
            outputFormat |-> input.outputFormat,
            paletteName |-> input.groupName \o "-" \o input.pairs[i].color], p))
  /\ UNCHANGED <<op, input, pc, loads, pattern, acc, clockReads, outcome, displayed>>

GenerateBatchCollect ==
  /\ op = "generateBatch" /\ pc = "items" /\ AllSettled
  /\ LET rs == ForEachResults(Len(input.pairs))
         successfulPalettes == GetRights(rs)
         failures == extractFailures(input.pairs, rs)
     IN  /\ acc' = [computed |-> TRUE, palettes |-> successfulPalettes,
                    failures |-> failures]
         /\ IF NoSuccess(successfulPalettes)
            THEN /\ outcome' = Failure(
                       [_tag |-> "BatchGenerationError",
                        message |-> "All palette generations failed: "
                                      \o formatFailures(failures)])
                 /\ pc' = "done"
            ELSE /\ pc' = "collected"
                 /\ UNCHANGED outcome
  /\ UNCHANGED <<op, input, loads, pattern, status, results, completed, clockReads,
                 displayed>>

GenerateBatchReturn ==
  /\ op = "generateBatch" /\ pc = "collected"
  /\ \E millis \in ClockValues :
       /\ clockReads' = Append(clockReads, ClockRead(millis))
       /\ IF isValidISOTimestamp(ToISOString(millis))
          THEN outcome' = Success(
                 [groupName |-> input.groupName,
                  outputFormat |-> input.outputFormat,
                  palettes |-> acc.palettes,
                  failures |-> acc.failures,
                  generatedAt |-> ToISOString(millis)])
          ELSE outcome' = Failure(
                 [_tag |-> "BatchGenerationError",
                  message |-> "Failed to encode timestamp"])
  /\ pc' = "done"
  /\ UNCHANGED <<op, input, loads, pattern, status, results, completed, acc, displayed>>

\* ------------------------------------------------------- transformColor.ts
\* a name the caller left undefined
Undefined == "<undefined>"

\* input.name ?? groupName
NameOr(name, groupName) == IF name = Undefined THEN groupName ELSE name

Single(reference, target) ==
  [kind |-> "single", reference |-> reference, targets |-> <<target>>,
   stop |-> 500, name |-> "t1"]

Many(reference, targets) ==
  [kind |-> "many", reference |-> reference, targets |-> targets,
   stop |-> 300, name |-> Undefined]

\* "targets" in input
isTransformManyInput(t) == t.kind = "many"

TargetSet == {"#238551", "#GGGGGG"}


RECURSIVE TransformationSeqs(_, _)
\* sequences of at most n transformations with at most budget targets in all
TransformationSeqs(n, budget) ==
  LET TransformationSet ==
        {Single("#2D72D2", "#238551"), Single("#2D72D2", "invalid-color"),
         Single("invalid-color", "#238551"), Single("oklch(1 0.2 30)", "#238551")}
          \cup {Many("#2D72D2", ts) : ts \in SeqsUpTo(TargetSet, MaxItems)}
          \cup {Many("invalid-color", ts) : ts \in SeqsUpTo({"#238551"}, MaxItems)}
  IN
  IF n = 0 THEN {<<>>}
  ELSE {<<>>} \cup
       UNION { {<<t>> \o rest : rest \in TransformationSeqs(n - 1, budget - Len(t.targets))} :
               t \in {x \in TransformationSet : Len(x.targets) <= budget} }



\* applyTransformation: Either<TransformColorError, hex string>
applyTransformation(reference, target) ==
  LET failed == Left([_tag |-> "TransformColorError",
                      message |-> "Failed to apply transformation from "
                                    \o reference \o " to " \o target])
      referenceColor == parseColorStringToOKLCH(reference)
      targetColor == parseColorStringToOKLCH(target)
  IN  IF IsLeft(referenceColor) \/ IsLeft(targetColor) THEN failed
      ELSE LET transformedColor ==
                 applyOpticalAppearance(referenceColor.right, targetColor.right)
           IN  IF IsLeft(transformedColor) THEN failed
               ELSE oklchToHex(transformedColor.right)

\* the per-target body shared by transformMany, processOneToMany and the CLI
\* handler: parse the target, transform, render as hex, generate
TransformTarget(referenceColor, target, stop, outputFormat, paletteName, pat) ==
  LET targetColor == parseColorStringToOKLCH(target)
  IN  IF IsLeft(targetColor) THEN targetColor
      ELSE LET transformedColor == applyOpticalAppearance(referenceColor, targetColor.right)
           IN  IF IsLeft(transformedColor)
               THEN Left([_tag |-> transformedColor.left._tag,
                          message |-> transformedColor.left.reason])
               ELSE generatePaletteWithPattern(
                      [inputColor |-> oklchToHex(transformedColor.right).right,
                       anchorStop |-> stop,
                       outputFormat |-> outputFormat,
                       paletteName |-> paletteName], pat)

\* Either.match(result, {onLeft: failure entry, onRight: palette})
ToProcessResult(result, color, stop) ==
  IF IsLeft(result)
  THEN [palette |-> None,
        failure |-> Some([color |-> color, stop |-> stop,
                          error |-> result.left.message])]
  ELSE [palette |-> Some(result.right), failure |-> None]

\* processSingle: one ProcessResult
processSingle(t, pat, outputFormat, groupName) ==
  LET transformedHex == applyTransformation(t.reference, t.targets[1])
      result == IF IsLeft(transformedHex) THEN transformedHex
                ELSE generatePaletteWithPattern(
                       [inputColor |-> transformedHex.right,
                        anchorStop |-> t.stop,
                        outputFormat |-> outputFormat,
                        paletteName |-> NameOr(t.name, groupName)], pat)
  IN  ToProcessResult(result, t.targets[1], t.stop)

\* variant: the targets of an unparsable reference leave no trace
InvalidReferenceDropped(t, j) == [palette |-> None, failure |-> None]

\* processOneToMany with an unparsable reference: every target fails at once
InvalidReferenceResult(t, j) ==
  [palette |-> None,
   failure |-> Some([color |-> t.targets[j], stop |-> t.stop,
                     error |-> "Invalid reference color: " \o t.reference])]

\* processOneToMany, the j-th target of a parsable reference
processOneToManyTarget(t, j, pat, outputFormat, groupName) ==
  ToProcessResult(
    TransformTarget(parseColorStringToOKLCH(t.reference).right, t.targets[j], t.stop,
                    outputFormat,
                    NameOr(t.name, groupName) \o "-" \o t.targets[j], pat),
    t.targets[j], t.stop)

RECURSIVE FlattenFrom(_, _)
\* Arr.flatten(nestedResults): transformation by transformation, target by target
FlattenFrom(ts, i) ==
  IF i > Len(ts) THEN <<>>
  ELSE [j \in 1..Len(ts[i].targets) |-> results[<<i, j>>]] \o FlattenFrom(ts, i + 1)

HasPalette(r) == r.palette._tag = "Some"
HasFailure(r) == r.failure._tag = "Some"

\* Arr.getSomes(Arr.map(allResults, r => r.palette))
PalettesOf(rs) ==
  LET hits == SelectSeq(rs, HasPalette)
  IN  [k \in 1..Len(hits) |-> hits[k].palette.value]

\* Arr.filterMap(allResults, r => r.failure)
FailuresOf(rs) ==
  LET hits == SelectSeq(rs, HasFailure)
  IN  [k \in 1..Len(hits) |-> hits[k].failure.value]

\* the error transformBatch fails with when no palette was generated
AllTransformationsFailed(failures) ==
  [_tag |-> "TransformColorError",
   message |-> "All transformations failed: " \o formatFailures(failures)]

\* --------------------------------------------------- transformBatch actions
TransformBatchLoad ==
  /\ op = "transformBatch" /\ pc = "start"
  /\ loads' = loads + 1
  /\ \E r \in LoadPatternResults(input.patternSource) :
       IF IsRight(r)
       THEN /\ pattern' = r.right
            /\ pc' = "items"
            /\ UNCHANGED outcome
       ELSE /\ outcome' = Failure(r.left)
            /\ pc' = "done"
            /\ UNCHANGED pattern
  /\ UNCHANGED <<op, input, status, results, completed, acc, clockReads, displayed>>

ReferenceParses(i) == IsRight(parseColorStringToOKLCH(input.transformations[i].reference))

\* processOneToMany, lines 296-312
TransformBatchRejectReference(i) ==
  /\ op = "transformBatch" /\ pc = "items"
  /\ i \in 1..Len(input.transformations)
  /\ isTransformManyInput(input.transformations[i])
  /\ ~ReferenceParses(i)
  /\ <<i, 1>> \in DOMAIN status
  /\ status[<<i, 1>>] = "pending"
  /\ LET mine == {<<i, j>> : j \in 1..Len(input.transformations[i].targets)}
     IN  /\ status' = [t \in DOMAIN status |-> IF t \in mine THEN "done" ELSE status[t]]
         /\ results' = [t \in DOMAIN results |->
                          IF t \in mine
                          THEN InvalidReferenceResult(input.transformations[i], t[2])
                          ELSE results[t]]
         /\ completed' = completed \o
                           [j \in 1..Len(input.transformations[i].targets) |-> <<i, j>>]
  /\ UNCHANGED <<op, input, pc, loads, pattern, acc, clockReads, outcome, displayed>>

TransformBatchStartItem(i, j) ==
  /\ op = "transformBatch"
  /\ i \in 1..Len(input.transformations)
  /\ isTransformManyInput(input.transformations[i]) => ReferenceParses(i)
  /\ StartTask(<<i, j>>)
  /\ UNCHANGED <<op, input, pc, loads, pattern, results, completed, acc,
                 clockReads, outcome, displayed>>

TransformBatchFinishItem(i, j) ==
  /\ op = "transformBatch"
  /\ i \in 1..Len(input.transformations)
  /\ \E p \in ItemPatterns :
       FinishTask(<<i, j>>,
         IF isTransformManyInput(input.transformations[i])
         THEN processOneToManyTarget(input.transformations[i], j, p,
                                     input.outputFormat, input.groupName)
         ELSE processSingle(input.transformations[i], p,
                            input.outputFormat, input.groupName))
  /\ UNCHANGED <<op, input, pc, loads, pattern, acc, clockReads, outcome, displayed>>

TransformBatchCollect ==
  /\ op = "transformBatch" /\ pc = "items" /\ AllSettled
  /\ LET allResults == FlattenFrom(input.transformations, 1)
         successfulPalettes == PalettesOf(allResults)
         failures == FailuresOf(allResults)
     IN  /\ acc' = [computed |-> TRUE, palettes |-> successfulPalettes,
                    failures |-> failures]
         /\ IF NoSuccess(successfulPalettes)
            THEN /\ outcome' = Failure(AllTransformationsFailed(failures))
                 /\ pc' = "done"
            ELSE /\ pc' = "collected"
                 /\ UNCHANGED outcome
  /\ UNCHANGED <<op, input, loads, pattern, status, results, completed, clockReads,
                 displayed>>

\* Schema.decodeSync throws on an invalid timestamp: a defect, not a typed error
TransformBatchReturn ==
  /\ op = "transformBatch" /\ pc = "collected"
  /\ \E millis \in ClockValues :
       /\ clockReads' = Append(clockReads, ClockRead(millis))
       /\ IF isValidISOTimestamp(ToISOString(millis))
          THEN outcome' = Success(
                 [groupName |-> input.groupName,
                  outputFormat |-> input.outputFormat,
                  palettes |-> acc.palettes,
                  failures |-> acc.failures,
                  generatedAt |-> ToISOString(millis)])
          ELSE outcome' = [_tag |-> "Die", defect |-> "ParseError"]
  /\ pc' = "done"
  /\ UNCHANGED <<op, input, loads, pattern, status, results, completed, acc, displayed>>

\* ---------------------------------------------------- transformMany actions
\* Effect.mapError of transformMany: pattern and transform errors pass, any
\* other cause is wrapped
TransformManyError(cause, reference) ==
  IF cause._tag \in {"PatternLoadError", "TransformColorError"} THEN cause
  ELSE [_tag |-> "TransformColorError",
        message |-> "Failed to transform targets using " \o reference]

\* lines 121-130: load the pattern, then parse the reference
TransformManyLoad ==
  /\ op = "transformMany" /\ pc = "start"
  /\ loads' = loads + 1
  /\ \E r \in LoadPatternResults(input.patternSource) :
       IF IsLeft(r)
       THEN /\ outcome' = Failure(TransformManyError(r.left, input.reference))
            /\ pc' = "done"
            /\ UNCHANGED pattern
       ELSE /\ pattern' = r.right
            /\ IF IsLeft(parseColorStringToOKLCH(input.reference))
               THEN /\ outcome' = Failure(TransformManyError(
                          [_tag |-> "TransformColorError",
                           message |-> "Invalid reference color: " \o input.reference],
                          input.reference))
                    /\ pc' = "done"
               ELSE /\ pc' = "items"
                    /\ UNCHANGED outcome
  /\ UNCHANGED <<op, input, status, results, completed, acc, clockReads, displayed>>

TransformManyStartItem(j) ==
  /\ op = "transformMany"
  /\ StartTask(<<j, 1>>)
  /\ UNCHANGED <<op, input, pc, loads, pattern, results, completed, acc,
                 clockReads, outcome, displayed>>

\* variant: a failed item is skipped
ForEachSkips(r) == FALSE

\* what Effect.forEach does with a finished item: it keeps a success and
\* fails as a whole on a failure
ForEachFailsOn(r) == IsLeft(r)

\* lines 132-151: one target; a failure fails the forEach and interrupts the rest
TransformManyFinishItem(j) ==
  /\ op = "transformMany" /\ pc = "items"
  /\ j \in 1..Len(input.targets)
  /\ status[<<j, 1>>] = "running"
  /\ \E p \in ItemPatterns :
       LET r == TransformTarget(parseColorStringToOKLCH(input.reference).right,
                                input.targets[j], input.stop, input.outputFormat,
                                input.name \o "-" \o input.targets[j], p)
       IN  /\ FinishTask(<<j, 1>>, r)
           /\ IF ForEachFailsOn(r)
              THEN /\ outcome' = Failure(TransformManyError(r.left, input.reference))
                   /\ pc' = "done"
              ELSE UNCHANGED <<outcome, pc>>
  /\ UNCHANGED <<op, input, loads, pattern, acc, clockReads, displayed>>

TransformManyReturn ==
  /\ op = "transformMany" /\ pc = "items" /\ AllSettled
  /\ outcome' = Success(GetRights(ForEachResults(Len(input.targets))))
  /\ pc' = "done"
  /\ UNCHANGED <<op, input, loads, pattern, status, results, completed, acc,
                 clockReads, displayed>>

\* ------------------------------- modes/transform/executor.ts (CLI handler)

\* lines 85-86: parse the format option and the reference color
HandleOneToManyBegin ==
  /\ op = "handleOneToManyTransformation" /\ pc = "start"
  /\ LET referenceColor == parseColorStringToOKLCH(input.reference)
     IN  IF IsLeft(referenceColor)
         THEN /\ outcome' = Failure(referenceColor.left)
              /\ pc' = "done"
         ELSE /\ pc' = "items"
              /\ UNCHANGED outcome
  /\ UNCHANGED <<op, input, loads, pattern, status, results, completed, acc,
                 clockReads, displayed>>

\* concurrency: 1 - the targets run one after the other, in input order
HandleOneToManyStartItem(j) ==
  /\ op = "handleOneToManyTransformation"
  /\ j \in 1..Len(input.targets)
  /\ \A k \in 1..(j - 1) : status[<<k, 1>>] = "done"
  /\ StartTask(<<j, 1>>)
  /\ UNCHANGED <<op, input, pc, loads, pattern, results, completed, acc,
                 clockReads, outcome, displayed>>

\* lines 90-111: parse, transform, generateAndDisplay (which loads the
\* pattern itself, formatter.ts lines 60-81), displayPalette
HandleOneToManyFinishItem(j) ==
  /\ op = "handleOneToManyTransformation" /\ pc = "items"
  /\ j \in 1..Len(input.targets)
  /\ status[<<j, 1>>] = "running"
  /\ LET targetColor == parseColorStringToOKLCH(input.targets[j])
         transformedColor ==
           applyOpticalAppearance(parseColorStringToOKLCH(input.reference).right,
                                  targetColor.right)
         name == IF input.nameOpt = None THEN "transformed-" \o input.targets[j]
                 ELSE input.nameOpt.value \o "-" \o input.targets[j]
     IN  IF IsLeft(targetColor) \/ IsLeft(transformedColor)
         THEN /\ FinishTask(<<j, 1>>,
                   IF IsLeft(targetColor) THEN targetColor ELSE transformedColor)
              /\ outcome' = Failure(IF IsLeft(targetColor) THEN targetColor.left
                                    ELSE transformedColor.left)
              /\ pc' = "done"
              /\ UNCHANGED <<loads, pattern, displayed>>
         ELSE /\ loads' = loads + 1
              /\ \E loaded \in LoadPatternResults(input.pattern) :
                   IF IsLeft(loaded)
                   THEN /\ FinishTask(<<j, 1>>, loaded)
                        /\ outcome' = Failure(loaded.left)
                        /\ pc' = "done"
                        /\ UNCHANGED <<pattern, displayed>>
                   ELSE LET r == generatePaletteWithPattern(
                                   [inputColor |-> oklchToHex(transformedColor.right).right,
                                    anchorStop |-> input.stop,
                                    outputFormat |-> input.formatOpt,
                                    paletteName |-> name], loaded.right)
                        IN  /\ FinishTask(<<j, 1>>, r)
                            /\ pattern' = loaded.right
                            /\ IF IsLeft(r)
                               THEN /\ outcome' = Failure(r.left)
                                    /\ pc' = "done"
                                    /\ UNCHANGED displayed
                               ELSE /\ displayed' = Append(displayed, r.right)
                                    /\ UNCHANGED <<outcome, pc>>
  /\ UNCHANGED <<op, input, acc, clockReads>>

\* lines 115-117 and handleBatchExport: export when a target is configured
HandleOneToManyExport ==
  /\ op = "handleOneToManyTransformation" /\ pc = "items" /\ AllSettled
  /\ LET rs == GetRights(ForEachResults(Len(input.targets)))
     IN  IF input.exportTarget = "none"
         THEN /\ outcome' = Success(rs)
              /\ UNCHANGED clockReads
         ELSE \E millis \in ClockValues :
                /\ clockReads' = Append(clockReads, ClockRead(millis))
                /\ IF rs = <<>>
                   THEN outcome' = Failure([_tag |-> "ParseError",
                                            message |-> "BatchResult needs at least one palette"])
                   ELSE outcome' = Success(rs)
  /\ pc' = "done"
  /\ UNCHANGED <<op, input, loads, pattern, status, results, completed, acc, displayed>>

\* ------------------------------------------------------------ specification
TaskIdsOf(o, inp) ==
  CASE o = "generateBatch" -> {<<i, 1>> : i \in 1..Len(inp.pairs)}
    [] o = "transformBatch" ->
         {t \in (1..Len(inp.transformations)) \X (1..MaxItems) :
            t[2] <= Len(inp.transformations[t[1]].targets)}

    [] OTHER -> {<<j, 1>> : j \in 1..Len(inp.targets)}

Ops == {"generateBatch", "transformBatch", "transformMany",
        "handleOneToManyTransformation"}

InputsOf(o) ==
  LET PairSet ==
        { [color |-> "#2D72D2", stop |-> 500],
          [color |-> "#238551", stop |-> 100],
          [color |-> "invalid-color", stop |-> 900],
          [color |-> "#GGGGGG", stop |-> 300] }
  IN
  CASE o = "generateBatch" ->
        { [pairs |-> ps, outputFormat |-> "hex", groupName |-> "batch",
           patternSource |-> "patterns/example.json"] : ps \in SeqsUpTo(PairSet, MaxItems) }
    [] o = "transformBatch" ->
        { [transformations |-> ts, outputFormat |-> "hex", groupName |-> "batch",
           patternSource |-> "patterns/example.json"] :
            ts \in TransformationSeqs(MaxTransformations, MaxItems) }
    [] o = "transformMany" ->
        { [reference |-> r, targets |-> ts, stop |-> 300, name |-> "many",
           outputFormat |-> "hex", patternSource |-> "patterns/example.json"] :
            r \in {"#2D72D2", "invalid-color"} \cup {"oklch(1 0.2 30)"},
            ts \in SeqsUpTo(TargetSet, MaxItems) }
    [] o = "handleOneToManyTransformation" ->
        { [reference |-> r, targets |-> ts, stop |-> 300,
           formatOpt |-> "hex", nameOpt |-> None, exportTarget |-> e,
           pattern |-> "patterns/example.json"] :
            r \in {"#2D72D2", "oklch(0.98 0.01 155)"},
            ts \in SeqsUpTo({"#238551", "#2D72D2"}, MaxItems) \ {<<>>},
            e \in {"none", "json"} }

Init ==
  /\ op \in Ops
  /\ input \in InputsOf(op)
  /\ pc = "start"
  /\ loads = 0
  /\ pattern = NoPattern
  /\ NewTasks(TaskIdsOf(op, input))
  /\ completed = <<>>
  /\ acc = NoAcc
  /\ clockReads = <<>>
  /\ displayed = <<>>
  /\ outcome = NoOutcome

Next ==
  \/ GenerateBatchLoad
  \/ \E i \in 1..MaxItems : GenerateBatchStartItem(i)
  \/ \E i \in 1..MaxItems : GenerateBatchFinishItem(i)
  \/ GenerateBatchCollect
  \/ GenerateBatchReturn
  \/ TransformBatchLoad
  \/ \E i \in 1..MaxTransformations : TransformBatchRejectReference(i)
  \/ \E i \in 1..MaxTransformations, j \in 1..MaxItems : TransformBatchStartItem(i, j)
  \/ \E i \in 1..MaxTransformations, j \in 1..MaxItems : TransformBatchFinishItem(i, j)
  \/ TransformBatchCollect
  \/ TransformBatchReturn
  \/ TransformManyLoad
  \/ \E j \in 1..MaxItems : TransformManyStartItem(j)
  \/ \E j \in 1..MaxItems : TransformManyFinishItem(j)
  \/ TransformManyReturn
  \/ HandleOneToManyBegin
  \/ \E j \in 1..MaxItems : HandleOneToManyStartItem(j)
  \/ \E j \in 1..MaxItems : HandleOneToManyFinishItem(j)
  \/ HandleOneToManyExport

Spec == Init /\ [][Next]_vars

\* ------------------------------------------- the optical transform on its own
LightnessSet == {0, 4, 5, 25, 50, 95, 96, 100}
ChromaSet == {0, 10, 30}
HueSet == {-90, 30, 120, 259, 400, 720, NaN}


\* hues given to normalizeHue and hueDifference, colors given to clampToGamut
OpticalInputsOf(o) ==
  LET HueArguments == {-450, -340, -90, 0, 10, 90, 180, 190, 350, 359, 360, 450, 720}
  IN
  CASE o = "hueDifference" -> {[h1 |-> a, h2 |-> b] : a, b \in HueArguments}
    [] o = "normalizeHue" -> {[hue |-> a] : a \in HueArguments \cup {TinyNegative}}
    [] o = "clampToGamut" ->
         {[color |-> [l |-> l, c |-> c, h |-> h, alpha |-> a]] :
            l \in LightnessSet, c \in ChromaSet \cup {60}, h \in HueSet,
            a \in {50, 100}}
    [] OTHER ->
         { [reference |-> [l |-> l, c |-> c, h |-> h, alpha |-> a],
            target |-> [l |-> 60, c |-> tc, h |-> th, alpha |-> 100]] :
             l \in LightnessSet, c \in ChromaSet, h \in {259, -30}, a \in {50, 100},
             tc \in {0, 12}, th \in HueSet }

OpticalOps ==
  {"applyOpticalAppearance", "isTransformationViable", "hueDifference", "normalizeHue",
   "clampToGamut"}

InitOptical ==
  /\ op \in OpticalOps
  /\ input \in OpticalInputsOf(op)
  /\ pc = "start"
  /\ loads = 0
  /\ pattern = NoPattern
  /\ NewTasks({})
  /\ completed = <<>>
  /\ acc = NoAcc
  /\ clockReads = <<>>
  /\ displayed = <<>>
  /\ outcome = NoOutcome

ApplyOpticalAppearance ==
  /\ op = "applyOpticalAppearance" /\ pc = "start"
  /\ LET r == applyOpticalAppearance(input.reference, input.target)
     IN  outcome' = IF IsLeft(r) THEN Failure(r.left) ELSE Success(r.right)
  /\ pc' = "done"
  /\ UNCHANGED <<op, input, loads, pattern, status, results, completed, acc,
                 clockReads, displayed>>

IsTransformationViable ==
  /\ op = "isTransformationViable" /\ pc = "start"
  /\ LET r == isTransformationViable(input.reference, input.target)
     IN  outcome' = IF IsLeft(r) THEN Failure(r.left) ELSE Success(r.right)
  /\ pc' = "done"
  /\ UNCHANGED <<op, input, loads, pattern, status, results, completed, acc,
                 clockReads, displayed>>

HueDifference ==
  /\ op = "hueDifference" /\ pc = "start"
  /\ outcome' = Success(hueDifference(input.h1, input.h2))
  /\ pc' = "done"
  /\ UNCHANGED <<op, input, loads, pattern, status, results, completed, acc,
                 clockReads, displayed>>

NormalizeHue ==
  /\ op = "normalizeHue" /\ pc = "start"
  /\ outcome' = Success(normalizeHue(input.hue))
  /\ pc' = "done"
  /\ UNCHANGED <<op, input, loads, pattern, status, results, completed, acc,
                 clockReads, displayed>>

ClampToGamut ==
  /\ op = "clampToGamut" /\ pc = "start"
  /\ LET r == clampToGamut(input.color)
     IN  outcome' = IF IsLeft(r) THEN Failure(r.left) ELSE Success(r.right)
  /\ pc' = "done"
  /\ UNCHANGED <<op, input, loads, pattern, status, results, completed, acc,
                 clockReads, displayed>>

NextOptical ==
  \/ ApplyOpticalAppearance
  \/ IsTransformationViable
  \/ HueDifference
  \/ NormalizeHue
  \/ ClampToGamut

SpecOptical == InitOptical /\ [][NextOptical]_vars

\* ----------------------------------------------------------- exact fractions
\* Multipliers are quotients of color channels; they are kept as exact
\* fractions n/d in lowest terms with d > 0.
RECURSIVE GCD(_, _)
GCD(a, b) == IF b = 0 THEN a ELSE GCD(b, a % b)

Abs(a) == IF a < 0 THEN -a ELSE a

Rat(n, d) ==
  LET g == GCD(Abs(n), Abs(d))
      sign == IF d < 0 THEN -1 ELSE 1
  IN  [n |-> (sign * n) \div g, d |-> (sign * d) \div g]

RatOfInt(i) == [n |-> i, d |-> 1]
RatAdd(x, y) == Rat(x.n * y.d + y.n * x.d, x.d * y.d)
RatSub(x, y) == Rat(x.n * y.d - y.n * x.d, x.d * y.d)
RatMul(x, y) == Rat(x.n * y.n, x.d * y.d)
RatDiv(x, y) == Rat(x.n * y.d, x.d * y.n)
RatLess(x, y) == x.n * y.d < y.n * x.d
RatLeq(x, y) == x.n * y.d <= y.n * x.d
\* Math.max(0, x)
RatMax0(x) == IF x.n < 0 THEN RatOfInt(0) ELSE x

\* ------------------------------------------------ pattern extraction (part_018)
\* STOP_POSITIONS
StopPositions == <<100, 200, 300, 400, 500, 600, 700, 800, 900, 1000>>
StopPositionSet == {StopPositions[i] : i \in 1..Len(StopPositions)}

\* Pattern colors: lightness and chroma in units of 0.0001, hue in degrees.
\* 0.001, the divisor that stands in for a zero reference value
ZeroReferenceDivisor == 10

RECURSIVE InsertSorted(_, _)
InsertSorted(x, sorted) ==
  IF sorted = <<>> THEN <<x>>
  ELSE IF RatLeq(x, Head(sorted)) THEN <<x>> \o sorted
  ELSE <<Head(sorted)>> \o InsertSorted(x, Tail(sorted))

RECURSIVE SortRats(_)
\* [...values].sort((a, b) => a - b)
SortRats(values) ==
  IF values = <<>> THEN <<>> ELSE InsertSorted(Head(values), SortRats(Tail(values)))

RECURSIVE SumRats(_)
SumRats(values) ==
  IF values = <<>> THEN RatOfInt(0) ELSE RatAdd(Head(values), SumRats(Tail(values)))

\* variant: the arithmetic mean
MeanInstead(values) ==
  IF values = <<>> THEN RatOfInt(0)
  ELSE RatDiv(SumRats(values), RatOfInt(Len(values)))

\* median: the middle value, or the mean of the two middle values
median(values) ==
  IF values = <<>> THEN RatOfInt(0)
  ELSE LET sorted == SortRats(values)
           mid == Len(sorted) \div 2
       IN  IF Len(sorted) % 2 = 0
           THEN RatDiv(RatAdd(sorted[mid], sorted[mid + 1]), RatOfInt(2))
           ELSE sorted[mid + 1]

\* palette.stops.find((s) => s.position === referenceStop): index or 0
FindStop(stops, position) ==
  LET hits == {i \in 1..Len(stops) : stops[i].position = position}
  IN  IF hits = {} THEN 0 ELSE CHOOSE i \in hits : \A k \in hits : i <= k

\* variant: every reference value is raised to at least 0.001
FlooredDivisor(v) == IF v < ZeroReferenceDivisor THEN ZeroReferenceDivisor ELSE v

\* value === 0 ? 0.001 : value
ReferenceDivisor(v) == IF v = 0 THEN ZeroReferenceDivisor ELSE v

\* the ratios of one stop of one palette against that palette's reference color
StopRatios(stop, referenceColor) ==
  [lightnessMultiplier |-> Rat(stop.color.l, ReferenceDivisor(referenceColor.l)),
   chromaMultiplier |-> Rat(stop.color.c, ReferenceDivisor(referenceColor.c)),
   hueShiftDegrees |-> RatOfInt(hueDifference(referenceColor.h, stop.color.h))]

RECURSIVE RatiosAt(_, _, _)
\* ratiosByStop[position] once every palette has been analysed
RatiosAt(palettes, referenceStop, position) ==
  IF palettes = <<>> THEN <<>>
  ELSE LET palette == Head(palettes)
           referenceColor == palette.stops[FindStop(palette.stops, referenceStop)].color
           mine == SelectSeq(palette.stops, LAMBDA st : st.position = position)
       IN  [k \in 1..Len(mine) |-> StopRatios(mine[k], referenceColor)]
             \o RatiosAt(Tail(palettes), referenceStop, position)

PatternExtractionError(reason, paletteCount) ==
  [_tag |-> "PatternExtractionError", reason |-> reason, paletteCount |-> paletteCount]

\* the aggregate of the ratios collected for one stop
AggregateRatios(ratios) ==
  [lightnessMultiplier |-> median([k \in 1..Len(ratios) |-> ratios[k].lightnessMultiplier]),
   chromaMultiplier |-> median([k \in 1..Len(ratios) |-> ratios[k].chromaMultiplier]),
   hueShiftDegrees |-> median([k \in 1..Len(ratios) |-> ratios[k].hueShiftDegrees])]

\* palettes.length === 1 ? 0.8 : calculateConfidence(ratiosByStop)
Confidence(palettes) ==
  IF Len(palettes) = 1 THEN [_tag |-> "fixed", value |-> Rat(4, 5)]
  ELSE [_tag |-> "calculated"]

\* variant: a palette without the reference stop is skipped
NoPaletteMissing(palettes, referenceStop) == {}

\* the palettes that have no stop at the reference position
PalettesMissingReference(palettes, referenceStop) ==
  {i \in 1..Len(palettes) : FindStop(palettes[i].stops, referenceStop) = 0}

\* extractPatterns: Either<PatternExtractionError, TransformationPattern>
extractPatterns(palettes, referenceStop) ==
  IF Len(palettes) = 0
  THEN Left(PatternExtractionError("No palettes provided", 0))
  ELSE LET missing == PalettesMissingReference(palettes, referenceStop)
       IN  IF missing # {}
           THEN LET first == CHOOSE i \in missing : \A k \in missing : i <= k
                IN  Left(PatternExtractionError(
                           "Palette \"" \o palettes[first].name
                             \o "\" missing reference stop " \o ToString(referenceStop),
                           Len(palettes)))
           ELSE LET \* past the check above every palette has its reference stop
                    kept == SelectSeq(palettes,
                              LAMBDA pl : FindStop(pl.stops, referenceStop) # 0)
                    empty == {i \in 1..Len(StopPositions) :
                                RatiosAt(kept, referenceStop, StopPositions[i]) = <<>>}
                IN  IF empty # {}
                    THEN LET first == CHOOSE i \in empty : \A k \in empty : i <= k
                         IN  Left(PatternExtractionError(
                                    "No ratios calculated for stop "
                                      \o ToString(StopPositions[first]),
                                    Len(palettes)))
                    ELSE Right([name |-> "learned-pattern",
                                referenceStop |-> referenceStop,
                                transforms |->
                                  [position \in StopPositionSet |->
                                     AggregateRatios(RatiosAt(kept, referenceStop, position))],
                                metadata |-> [sourceCount |-> Len(palettes),
                                              confidence |-> Confidence(palettes)]])

\* ------------------------------------------- pattern smoothing (part_015)
LIGHTEST_STOP == 100
REFERENCE_STOP == 500
DARKEST_STOP == 1000
\* DARKEST_STOP - LIGHTEST_STOP
STOP_RANGE == 900
\* REFERENCE_MULTIPLIER = 1.0
REFERENCE_MULTIPLIER == 1

InterpolationError(message) == [_tag |-> "InterpolationError", message |-> message]

\* (position - LIGHTEST_STOP) / STOP_RANGE
normalizePosition(position) == Rat(position - LIGHTEST_STOP, STOP_RANGE)

\* variant: a straight line from the value at 100 to the value at 1000
LinearAt(value100, value1000, position) ==
  LET x == normalizePosition(position)
  IN  RatMax0(RatAdd(value100, RatMul(RatSub(value1000, value100), x)))

\* the parabola through (0, value100), (x_mid, 1.0), (1, value1000), at a
\* stop position, never below zero
QuadraticAt(value100, value1000, position) ==
  LET value500 == RatOfInt(REFERENCE_MULTIPLIER)
      c == value100
      x_mid == normalizePosition(REFERENCE_STOP)
      a == RatDiv(RatAdd(RatSub(RatSub(value500, c), RatMul(value1000, x_mid)),
                         RatMul(c, x_mid)),
                  RatSub(RatMul(x_mid, x_mid), x_mid))
      b == RatSub(RatSub(value1000, c), a)
      x == normalizePosition(position)
  IN  RatMax0(RatAdd(RatAdd(RatMul(RatMul(a, x), x), RatMul(b, x)), c))

\* createQuadraticInterpolation(pattern, (t) => t.lightnessMultiplier)
calculateLinearLightness(pat) ==
  [position \in StopPositionSet |->
     QuadraticAt(pat.transforms[LIGHTEST_STOP].lightnessMultiplier,
                 pat.transforms[DARKEST_STOP].lightnessMultiplier, position)]

\* createQuadraticInterpolation(pattern, (t) => t.chromaMultiplier)
smoothChromaCurve(pat) ==
  [position \in StopPositionSet |->
     QuadraticAt(pat.transforms[LIGHTEST_STOP].chromaMultiplier,
                 pat.transforms[DARKEST_STOP].chromaMultiplier, position)]

\* 10000 * sin of 0, 5, ..., 90 degrees
SinTable ==
  <<0, 872, 1736, 2588, 3420, 4226, 5000, 5736, 6428, 7071, 7660, 8192, 8660,
    9063, 9397, 9659, 9848, 9962, 10000>>

\* Math.sin(angle * DEG_TO_RAD), for whole multiples of 5 degrees
Sin(deg) ==
  LET d == deg % 360
  IN  IF d <= 90 THEN SinTable[(d \div 5) + 1]
      ELSE IF d <= 180 THEN SinTable[((180 - d) \div 5) + 1]
      ELSE IF d <= 270 THEN -SinTable[((d - 180) \div 5) + 1]
      ELSE -SinTable[((360 - d) \div 5) + 1]

Cos(deg) == Sin(deg + 90)

GridAngles == {5 * k : k \in -35..36}

\* Math.atan2(y, x) * RAD_TO_DEG, to the nearest 5 degrees: the direction
\* that lies closest to the vector (x, y)
Atan2(y, x) ==
  IF x = 0 /\ y = 0 THEN 0
  ELSE LET along(g) == x * Cos(g) + y * Sin(g)
           best == {g \in GridAngles : \A other \in GridAngles : along(g) >= along(other)}
       IN  CHOOSE g \in best : \A other \in best : Abs(g) >= Abs(other)

RECURSIVE SumOver(_, _)
SumOver(angles, i) ==
  IF i > Len(angles) THEN [sin |-> 0, cos |-> 0]
  ELSE LET rest == SumOver(angles, i + 1)
       IN  [sin |-> Sin(angles[i].n) + rest.sin, cos |-> Cos(angles[i].n) + rest.cos]

\* circularMean: average the unit vectors, take the angle of the average
circularMean(angles) ==
  IF angles = <<>>
  THEN Left(InterpolationError("Failed to calculate circular mean: array is empty"))
  ELSE LET sums == SumOver(angles, 1)
       IN  Right(RatOfInt(Atan2(sums.sin, sums.cos)))

\* the raw hue shifts of the ten stops, in stop order
HueShiftsOf(pat) ==
  [i \in 1..Len(StopPositions) |-> pat.transforms[StopPositions[i]].hueShiftDegrees]

\* part_015: one hue shift for all stops, the circular mean of the raw ones
calculateConsistentHue(pat) == circularMean(HueShiftsOf(pat))

\* part_014 and part_016: one hue shift for all stops, the median of the raw ones
calculateConsistentHueMedian(pat) == Right(median(HueShiftsOf(pat)))

\* variant: the name is kept
SameName(name) == name

\* `${pattern.name}-smoothed`
SmoothedName(name) == name \o "-smoothed"

\* buildTransformMap
buildTransformMap(lightnessMultipliers, chromaMultipliers, hueShiftDegrees) ==
  [position \in StopPositionSet |->
     [lightnessMultiplier |-> lightnessMultipliers[position],
      chromaMultiplier |-> chromaMultipliers[position],
      hueShiftDegrees |-> hueShiftDegrees]]

\* the pattern has a transform for each of the ten stops
HasAllStops(pat) == StopPositionSet \subseteq DOMAIN pat.transforms

\* { ...pattern, name, transforms }
SmoothedWith(pat, consistentHue) ==
  IF ~HasAllStops(pat) \/ IsLeft(consistentHue)
  THEN Left(InterpolationError("Failed to smooth pattern"))
  ELSE Right([pat EXCEPT
                !.name = SmoothedName(pat.name),
                !.transforms = buildTransformMap(calculateLinearLightness(pat),
                                                 smoothChromaCurve(pat),
                                                 consistentHue.right)])

\* smoothPattern of part_015
smoothPattern(pat) ==
  SmoothedWith(pat, IF HasAllStops(pat) THEN calculateConsistentHue(pat)
                    ELSE Left(InterpolationError("missing stop")))

\* smoothPattern of part_014 (and part_016)
smoothPatternMedianHue(pat) ==
  SmoothedWith(pat, IF HasAllStops(pat) THEN calculateConsistentHueMedian(pat)
                    ELSE Left(InterpolationError("missing stop")))

\* the example palettes offered to extractPatterns
MaxPalettes == 3

StopsOf(ls, cs, hs, keep) ==
  LET all == [i \in 1..Len(StopPositions) |->
                [position |-> StopPositions[i],
                 color |-> [l |-> ls[i], c |-> cs[i], h |-> hs[i], alpha |-> 100]]]
  IN  SelectSeq(all, LAMBDA st : st.position \in keep)


PaletteSet ==
  LET BlueLightness == <<9500, 8800, 7800, 6800, 5700, 4900, 4100, 3300, 2600, 2000>>
      BlueChroma == <<300, 600, 1000, 1300, 1500, 1400, 1200, 1000, 800, 600>>
      BlueHue == <<255, 256, 257, 258, 259, 261, 263, 265, 267, 269>>
      RedLightness == <<9000, 8000, 7000, 6000, 5000, 4200, 3500, 2800, 2200, 1500>>
      RedChroma == <<400, 800, 1200, 1400, 1600, 1500, 1300, 1100, 900, 700>>
      RedHue == <<350, 354, 358, 0, 2, 5, 8, 10, 12, 15>>
      FaintChroma == <<2, 3, 4, 5, 5, 5, 4, 3, 2, 1>>
      Zeros == <<0, 0, 0, 0, 0, 0, 0, 0, 0, 0>>
  IN
  { [name |-> "blue", stops |-> StopsOf(BlueLightness, BlueChroma, BlueHue, StopPositionSet)],
    [name |-> "red", stops |-> StopsOf(RedLightness, RedChroma, RedHue, StopPositionSet)],
    [name |-> "gray", stops |-> StopsOf(BlueLightness, Zeros, Zeros, StopPositionSet)],
    [name |-> "black", stops |-> StopsOf(Zeros, Zeros, Zeros, StopPositionSet)],
    [name |-> "faint", stops |-> StopsOf(RedLightness, FaintChroma, BlueHue, StopPositionSet)],
    [name |-> "no-500",
     stops |-> StopsOf(BlueLightness, BlueChroma, BlueHue, StopPositionSet \ {500})] }


\* the raw patterns offered to smoothPattern: the multipliers at stops 100
\* and 1000, one raw value for the stops in between, and ten raw hue shifts

RawPattern(lightness, chroma, middle, hues, referenceStop) ==
  [name |-> "learned-pattern",
   referenceStop |-> referenceStop,
   transforms |->
     [position \in StopPositionSet |->
        [lightnessMultiplier |->
           IF position = LIGHTEST_STOP THEN lightness[1]
           ELSE IF position = DARKEST_STOP THEN lightness[2] ELSE middle,
         chromaMultiplier |->
           IF position = LIGHTEST_STOP THEN chroma[1]
           ELSE IF position = DARKEST_STOP THEN chroma[2] ELSE middle,
         hueShiftDegrees |-> RatOfInt(hues[position \div 100])]],
   metadata |-> [sourceCount |-> 1, confidence |-> Confidence(<<1>>)]]

SmoothPatternInputs ==
  LET LightnessEnds ==
        { <<Rat(5, 3), Rat(7, 20)>>, <<Rat(3, 1), Rat(9, 10)>>,
        <<Rat(5, 1), Rat(0, 1)>>, <<Rat(4, 5), Rat(6, 5)>> }
      ChromaEnds ==
        { <<Rat(1, 5), Rat(2, 5)>>, <<Rat(2, 1), Rat(-1, 10)>> }
      MiddleValues ==
        { Rat(1, 1), Rat(7, 3) }
      HueProfiles ==
        { <<0, 0, 0, 0, 0, 0, 0, 0, 0, 0>>,
        <<10, 10, 10, 20, 20, 20, 20, 30, 30, 30>>,
        <<-175, 175, -175, 175, -175, 175, -175, 175, -175, 175>>,
        <<0, 0, 0, 0, 0, 0, 0, 0, 0, 90>> }
  IN
  { [pattern |-> RawPattern(l, c, m, h, r)] :
      l \in LightnessEnds, c \in ChromaEnds, m \in MiddleValues, h \in HueProfiles,
      r \in {500, 300} }

PatternOps == {"extractPatterns", "smoothPattern", "smoothPattern (median hue)"}

PatternInputsOf(o) ==
  CASE o = "extractPatterns" ->
        { [palettes |-> ps, referenceStop |-> r] :
            ps \in SeqsUpTo(PaletteSet, MaxPalettes), r \in {500, 300} }
    [] OTHER -> SmoothPatternInputs

InitPattern ==
  /\ op \in PatternOps
  /\ input \in PatternInputsOf(op)
  /\ pc = "start"
  /\ loads = 0
  /\ pattern = NoPattern
  /\ NewTasks({})
  /\ completed = <<>>
  /\ acc = NoAcc
  /\ clockReads = <<>>
  /\ displayed = <<>>
  /\ outcome = NoOutcome

ExtractPatterns ==
  /\ op = "extractPatterns" /\ pc = "start"
  /\ LET r == extractPatterns(input.palettes, input.referenceStop)
     IN  outcome' = IF IsLeft(r) THEN Failure(r.left) ELSE Success(r.right)
  /\ pc' = "done"
  /\ UNCHANGED <<op, input, loads, pattern, status, results, completed, acc,
                 clockReads, displayed>>

SmoothPattern ==
  /\ op = "smoothPattern" /\ pc = "start"
  /\ LET r == smoothPattern(input.pattern)
     IN  outcome' = IF IsLeft(r) THEN Failure(r.left) ELSE Success(r.right)
  /\ pc' = "done"
  /\ UNCHANGED <<op, input, loads, pattern, status, results, completed, acc,
                 clockReads, displayed>>

SmoothPatternMedianHue ==
  /\ op = "smoothPattern (median hue)" /\ pc = "start"
  /\ LET r == smoothPatternMedianHue(input.pattern)
     IN  outcome' = IF IsLeft(r) THEN Failure(r.left) ELSE Success(r.right)
  /\ pc' = "done"
  /\ UNCHANGED <<op, input, loads, pattern, status, results, completed, acc,
                 clockReads, displayed>>

NextPattern ==
  \/ ExtractPatterns
  \/ SmoothPattern
  \/ SmoothPatternMedianHue

SpecPattern == InitPattern /\ [][NextPattern]_vars

\* =========================================================================
\* Properties
\* =========================================================================

\* what the inputs are expected to do, stated from the inputs alone
ExpectedValid(color) == color \in {"#2D72D2", "#238551", "#DB2C6F", "oklch(0.98 0.01 155)"}
ValidPair(p) == ExpectedValid(p.color)
InvalidPair(p) == ~ExpectedValid(p.color)

\* near-white with a trace of chroma has no displayable blue
ExpectedTransformOK(reference, target) ==
  /\ ExpectedValid(reference)
  /\ ExpectedValid(target)
  /\ ~(reference = "oklch(0.98 0.01 155)" /\ target = "#2D72D2")

PatternLoaded == pattern # NoPattern
GenerateBatchDone == op = "generateBatch" /\ pc = "done" /\ PatternLoaded
GoodPairs == SelectSeq(input.pairs, ValidPair)
BadPairs == SelectSeq(input.pairs, InvalidPair)

\* C1: generateBatch, pattern loaded, at least one pair generates: the call
\* succeeds with a BatchResult holding exactly the successful items as
\* palettes and exactly the failed items as failures (lengths add up to the
\* number of pairs); every item was settled, and the call never ends in an
\* item's own error.
C1_PartialSuccess ==
  /\ (op = "generateBatch" /\ outcome._tag = "Failure")
       => outcome.error._tag \in {"PatternLoadError", "BatchGenerationError"}
  /\ (GenerateBatchDone /\ GoodPairs # <<>>) =>
       /\ outcome._tag = "Success"
       /\ AllSettled
       /\ Len(outcome.value.palettes) = Len(GoodPairs)
       /\ \A k \in 1..Len(GoodPairs) :
            /\ outcome.value.palettes[k].inputColor = GoodPairs[k].color
            /\ outcome.value.palettes[k].anchorStop = GoodPairs[k].stop
       /\ Len(outcome.value.failures) = Len(BadPairs)
       /\ \A k \in 1..Len(BadPairs) : outcome.value.failures[k].color = BadPairs[k].color
       /\ Len(outcome.value.palettes) + Len(outcome.value.failures) = Len(input.pairs)

C1_Witness ==
  /\ GenerateBatchDone /\ outcome._tag = "Success"
  /\ Len(outcome.value.palettes) = 2
  /\ Len(outcome.value.failures) = 1

\* C2: generateBatch, pattern loaded, no pair generates: the call fails with
\* BatchGenerationError (no BatchResult), and the message lists every
\* pair's color with that item's failure message.
C2_TotalFailure ==
  (GenerateBatchDone /\ GoodPairs = <<>>) =>
    /\ outcome._tag = "Failure"
    /\ outcome.error._tag = "BatchGenerationError"
    /\ outcome.error.message =
         "All palette generations failed: " \o
         JoinStrings([k \in 1..Len(input.pairs) |->
                        input.pairs[k].color \o " (Failed to generate palette for "
                          \o input.pairs[k].color \o ")"], ", ")

C2_Witness ==
  /\ GenerateBatchDone /\ outcome._tag = "Failure"
  /\ Len(input.pairs) = 2
  /\ input.pairs[1].color # input.pairs[2].color

IsBatchOp == op \in {"generateBatch", "transformBatch"}

Settled == {t \in DOMAIN results : results[t] # Pending}

ProducedPalettes ==
  IF op = "transformBatch"
  THEN {results[t].palette.value : t \in {u \in Settled : results[u].palette._tag = "Some"}}
  ELSE {results[t].right : t \in {u \in Settled : results[u]._tag = "Right"}}

C3_State ==
  IsBatchOp =>
    /\ loads <= 1
    /\ pc # "start" => loads = 1
    /\ (\E t \in DOMAIN status : status[t] # "pending") => (loads = 1 /\ PatternLoaded)
    /\ \A pal \in ProducedPalettes : pal.pattern = pattern
    /\ (outcome._tag = "Failure" /\ outcome.error._tag = "PatternLoadError")
         => /\ \A t \in DOMAIN status : status[t] = "pending"
            /\ ~PatternLoaded
    /\ (~PatternLoaded /\ pc = "done")
         => (outcome._tag = "Failure" /\ outcome.error._tag = "PatternLoadError")

\* C3: generateBatch and transformBatch call the loader exactly once, before
\* any item starts; every palette is generated from that one pattern, which
\* stays as loaded; a failed load ends the call with PatternLoadError and no
\* item is processed.
C3_LoadOnce ==
  /\ []C3_State
  /\ [][(IsBatchOp /\ pc # "start") => pattern' = pattern]_vars

C3_Witness ==
  /\ op = "transformBatch" /\ pc = "done" /\ outcome._tag = "Success"
  /\ Cardinality(ProducedPalettes) >= 2
  /\ pattern.version = MaxVersion

ReportedFailures ==
  IF outcome._tag = "Success" THEN outcome.value.failures ELSE acc.failures

RECURSIVE ExpectedItems(_, _)
\* one expected outcome per single transformation and per target of a
\* one-to-many transformation, in input order
ExpectedItems(ts, i) ==
  IF i > Len(ts) THEN <<>>
  ELSE [j \in 1..Len(ts[i].targets) |->
          [color |-> ts[i].targets[j], stop |-> ts[i].stop,
           ok |-> ExpectedTransformOK(ts[i].reference, ts[i].targets[j]),
           message |->
             IF ts[i].kind = "single"
             THEN "Failed to apply transformation from " \o ts[i].reference
                    \o " to " \o ts[i].targets[j]
             ELSE IF ~ExpectedValid(ts[i].reference)
             THEN "Invalid reference color: " \o ts[i].reference
             ELSE "Invalid color string: " \o ts[i].targets[j]]]
       \o ExpectedItems(ts, i + 1)

RECURSIVE TotalOutcomes(_, _)
\* one outcome for a single transformation, one per target for a one-to-many
TotalOutcomes(ts, i) ==
  IF i > Len(ts) THEN 0
  ELSE (IF ts[i].kind = "single" THEN 1 ELSE Len(ts[i].targets)) + TotalOutcomes(ts, i + 1)

ExpectedOk(e) == e.ok
ExpectedNotOk(e) == ~e.ok
TransformBatchDone == op = "transformBatch" /\ pc = "done" /\ PatternLoaded
ExpectedSucceeded == SelectSeq(ExpectedItems(input.transformations, 1), ExpectedOk)
ExpectedFailed == SelectSeq(ExpectedItems(input.transformations, 1), ExpectedNotOk)

\* C4: every failure entry of a batch (in the BatchResult, or in the list a
\* total-failure error summarizes) carries the color and stop of the input
\* item that produced it and that item's own message, whatever order the
\* items completed in; items that succeeded have no failure entry.
C4_FailuresAttributed ==
  /\ GenerateBatchDone =>
       /\ Len(ReportedFailures) = Len(BadPairs)
       /\ \A k \in 1..Len(BadPairs) :
            /\ ReportedFailures[k].color = BadPairs[k].color
            /\ ReportedFailures[k].stop = BadPairs[k].stop
            /\ ReportedFailures[k].error =
                 "Failed to generate palette for " \o BadPairs[k].color
  /\ TransformBatchDone =>
       /\ Len(ReportedFailures) = Len(ExpectedFailed)
       /\ \A k \in 1..Len(ExpectedFailed) :
            /\ ReportedFailures[k].color = ExpectedFailed[k].color
            /\ ReportedFailures[k].stop = ExpectedFailed[k].stop
            /\ ReportedFailures[k].error = ExpectedFailed[k].message

\* the second pair failed and finished before the first, which succeeded
C4_Witness ==
  /\ GenerateBatchDone /\ outcome._tag = "Success"
  /\ Len(input.pairs) >= 2
  /\ ValidPair(input.pairs[1]) /\ InvalidPair(input.pairs[2])
  /\ completed[1] = <<2, 1>>

\* C5: generateBatch never ends in BatchGenerationError once an item has
\* succeeded; the error means that every item failed.
C5_ErrorOnlyWhenAllFailed ==
  (op = "generateBatch" /\ outcome._tag = "Failure"
     /\ outcome.error._tag = "BatchGenerationError")
    => /\ \A t \in Settled : IsLeft(results[t])
       /\ AllSettled
       /\ GoodPairs = <<>>

C5_Witness ==
  /\ op = "generateBatch" /\ pc = "done" /\ outcome._tag = "Success"
  /\ \E t \in Settled : IsRight(results[t])
  /\ \E t \in Settled : IsLeft(results[t])
  /\ clockReads[1].millis = MaxClock

\* the accumulation policy of transformBatch, with the error tag it fails with
C6Policy(tag) ==
  TransformBatchDone =>
    /\ AllSettled
    /\ Cardinality(DOMAIN status) = TotalOutcomes(input.transformations, 1)
    /\ Len(acc.palettes) = Len(ExpectedSucceeded)
    /\ Len(acc.failures) = Len(ExpectedFailed)
    /\ Len(acc.palettes) + Len(acc.failures) = TotalOutcomes(input.transformations, 1)
    /\ IF ExpectedSucceeded # <<>>
       THEN /\ outcome._tag = "Success"
            /\ outcome.value.palettes = acc.palettes
            /\ outcome.value.failures = acc.failures
       ELSE /\ outcome._tag = "Failure"
            /\ outcome.error._tag = tag
            /\ outcome.error.message =
                 "All transformations failed: " \o
                 JoinStrings([k \in 1..Len(ExpectedFailed) |->
                                ExpectedFailed[k].color \o " ("
                                  \o ExpectedFailed[k].message \o ")"], ", ")

ExpectedParse(s) == s \notin {"invalid-color", "#GGGGGG"}

OneToManyDone ==
  /\ op \in {"transformMany", "handleOneToManyTransformation"}
  /\ pc = "done"
  /\ ~(outcome._tag = "Failure" /\ outcome.error._tag = "PatternLoadError")

AllTargetsOk ==
  /\ ExpectedParse(input.reference)
  /\ \A j \in 1..Len(input.targets) : ExpectedTransformOK(input.reference, input.targets[j])

OkTargets ==
  {j \in 1..Len(input.targets) : ExpectedTransformOK(input.reference, input.targets[j])}

C8_ClockReadOnce ==
  IsBatchOp =>
    /\ Len(clockReads) <= 1
    /\ \A k \in 1..Len(clockReads) :
         /\ clockReads[k].unsettled = 0
         /\ clockReads[k].split
         /\ clockReads[k].at = "collected"
    /\ pc \in {"start", "items", "collected"} => clockReads = <<>>
    /\ outcome._tag = "Success" =>
         /\ Len(clockReads) = 1
         /\ outcome.value.generatedAt = ToISOString(clockReads[1].millis)
    /\ outcome._tag = "Failure" => clockReads = <<>>
    /\ (op = "generateBatch" /\ GoodPairs = <<>>) => clockReads = <<>>
    /\ (op = "transformBatch" /\ ExpectedSucceeded = <<>>) => clockReads = <<>>

C8_Witness ==
  /\ TransformBatchDone /\ outcome._tag = "Success"
  /\ outcome.value.failures # <<>>
  /\ outcome.value.generatedAt = ToISOString(MaxClock)

OpticalDone == op = "applyOpticalAppearance" /\ pc = "done"

\* chroma above zero and a defined hue
Chromatic(color) == color.c > 0 /\ color.h # NaN

\* reference L, C and alpha with the target's hue brought into [0, 360)
ExpectedCandidate ==
  [l |-> input.reference.l, c |-> input.reference.c,
   h |-> IF input.target.h = NaN THEN NaN ELSE input.target.h % 360,
   alpha |-> input.reference.alpha]

\* C9: with both colors chromatic and the candidate (reference L, C, alpha;
\* target hue normalized) displayable, applyOpticalAppearance returns exactly
\* that candidate.
C9_DisplayableCandidateUnchanged ==
  (OpticalDone /\ Chromatic(input.reference) /\ Chromatic(input.target)
     /\ isDisplayable(ExpectedCandidate))
    => outcome = Success(ExpectedCandidate)

C9_Witness ==
  /\ OpticalDone /\ outcome._tag = "Success"
  /\ input.reference.c = 10 /\ input.reference.alpha = 50
  /\ input.target.c = 12 /\ input.target.h = -90
  /\ outcome.value.h = 270 /\ outcome.value.c = 10

\* C10: with both colors chromatic and the candidate not displayable,
\* applyOpticalAppearance fails with ColorTransformationError when clamping
\* leaves no chroma, and otherwise returns the clamped color (same lightness,
\* hue and alpha, chroma reduced but above zero); a chromatic reference
\* never yields an achromatic result.
C10_NoSilentDesaturation ==
  /\ (OpticalDone /\ Chromatic(input.reference) /\ Chromatic(input.target)
        /\ ~isDisplayable(ExpectedCandidate))
       => IF clampChroma(ExpectedCandidate).c = 0
          THEN /\ outcome._tag = "Failure"
               /\ outcome.error._tag = "ColorTransformationError"
          ELSE /\ outcome = Success(clampChroma(ExpectedCandidate))
               /\ isDisplayable(outcome.value)
               /\ outcome.value.c > 0 /\ outcome.value.c < input.reference.c
               /\ outcome.value.l = input.reference.l
               /\ outcome.value.h = input.target.h % 360
               /\ outcome.value.alpha = input.reference.alpha
  /\ (OpticalDone /\ outcome._tag = "Success" /\ input.reference.c > 0)
       => outcome.value.c > 0

C10_Witness ==
  /\ OpticalDone /\ outcome._tag = "Failure"
  /\ outcome.error._tag = "ColorTransformationError"
  /\ input.reference.l = 100 /\ input.reference.c = 10
  /\ input.target.h = 259

\* C11: with a gray reference (reference.c = 0) applyOpticalAppearance
\* succeeds for every target, with chroma 0, the reference's lightness and
\* alpha, and the target's hue normalized into [0, 360) (an undefined hue
\* stays undefined).
C11_AchromaticReference ==
  (OpticalDone /\ input.reference.c = 0) =>
    /\ outcome._tag = "Success"
    /\ outcome.value.c = 0
    /\ outcome.value.l = input.reference.l
    /\ outcome.value.alpha = input.reference.alpha
    /\ outcome.value.h = IF input.target.h = NaN THEN NaN ELSE input.target.h % 360

C11_Witness ==
  /\ OpticalDone /\ outcome._tag = "Success"
  /\ input.reference.c = 0 /\ input.reference.h = 259
  /\ input.target.c = 12 /\ input.target.h = 400
  /\ outcome.value.h = 40

\* what C12 promises for a gray target
GrayTarget == input.target.c = 0 \/ input.target.h = NaN

ReferenceWithOwnHue ==
  [l |-> input.reference.l, c |-> input.reference.c,
   h |-> input.reference.h % 360, alpha |-> input.reference.alpha]

\* C12 (as amended): with a chromatic reference and a gray target (target.c
\* = 0 or target hue undefined) applyOpticalAppearance succeeds with the
\* reference's lightness, chroma and alpha and the reference's own hue
\* normalized; with a gray reference the gray-reference rule comes first and
\* the hue recorded is the target's.
C12_AchromaticTarget ==
  (OpticalDone /\ GrayTarget) =>
    IF input.reference.c > 0
    THEN outcome = Success(ReferenceWithOwnHue)
    ELSE /\ outcome._tag = "Success"
         /\ outcome.value.c = 0
         /\ outcome.value.h = IF input.target.h = NaN THEN NaN ELSE input.target.h % 360

\* C12 as stated: a gray target always yields the reference's own hue.
C12_AsStated ==
  (OpticalDone /\ GrayTarget) => outcome = Success(ReferenceWithOwnHue)

C12_Witness ==
  /\ OpticalDone /\ outcome._tag = "Success"
  /\ input.reference.c = 10 /\ input.reference.h = -30
  /\ input.target.c = 12 /\ input.target.h = NaN
  /\ outcome.value.h = 330

ViableDone == op = "isTransformationViable" /\ pc = "done"

\* C13: isTransformationViable never fails; it is false for reference
\* lightness below 0.05 or above 0.95 (0.05 and 0.95 are accepted), true
\* when both colors have no chroma, and otherwise true exactly when the
\* candidate is displayable or clamping loses strictly less than half of the
\* reference chroma.
C13_Viability ==
  ViableDone =>
    /\ outcome._tag = "Success"
    /\ outcome.value =
         IF input.reference.l < 5 \/ input.reference.l > 95 THEN FALSE
         ELSE IF input.reference.c = 0 /\ input.target.c = 0 THEN TRUE
         ELSE \/ isDisplayable(ExpectedCandidate)
              \/ 2 * (input.reference.c - clampChroma(ExpectedCandidate).c)
                   < input.reference.c
    /\ (input.reference.l \in {5, 95} /\ input.reference.c = 0) => outcome.value = TRUE
    /\ input.reference.l \in {4, 96} => outcome.value = FALSE

\* exactly half of the chroma is lost: not viable
C13_Witness ==
  /\ ViableDone /\ outcome = Success(FALSE)
  /\ input.reference.l = 25 /\ input.reference.c = 30
  /\ input.target.c = 12 /\ input.target.h = 120

\* ------------------------------------------------------ pattern properties
ExtractDone == op = "extractPatterns" /\ pc = "done"
SmoothOps == {"smoothPattern", "smoothPattern (median hue)"}
SmoothDone == op \in SmoothOps /\ pc = "done"

HasStop(pl, position) == \E k \in 1..Len(pl.stops) : pl.stops[k].position = position
ColorAt(pl, position) ==
  pl.stops[CHOOSE k \in 1..Len(pl.stops) : pl.stops[k].position = position].color

\* the divisor for a reference value: raised to 0.001 whenever below it
\* (floored), or replaced by 0.001 only when exactly zero
StatedDivisor(v, floored) ==
  IF floored THEN (IF v < 10 THEN 10 ELSE v) ELSE (IF v = 0 THEN 10 ELSE v)

PalettesWithStop(position) == SelectSeq(input.palettes, LAMBDA pl : HasStop(pl, position))

\* the per-palette values of one channel at one stop
StatedValues(position, channel, floored) ==
  LET pls == PalettesWithStop(position)
  IN  [i \in 1..Len(pls) |->
         LET ref == ColorAt(pls[i], input.referenceStop)
             st == ColorAt(pls[i], position)
         IN  CASE channel = "lightness" -> Rat(st.l, StatedDivisor(ref.l, floored))
               [] channel = "chroma" -> Rat(st.c, StatedDivisor(ref.c, floored))
               [] channel = "hue" -> RatOfInt(((st.h - ref.h + 180) % 360) - 180)]

\* m is the median of the values: at most half of them lie below it and at
\* most half above; it is one of them (odd count) or midway between two
\* neighbouring ones (even count)
IsMedianOf(m, values) ==
  LET n == Len(values)
      below == Cardinality({i \in 1..n : RatLess(values[i], m)})
      above == Cardinality({i \in 1..n : RatLess(m, values[i])})
  IN  /\ 2 * below <= n /\ 2 * above <= n
      /\ IF n % 2 = 1
         THEN \E i \in 1..n : values[i] = m
         ELSE \E i, j \in 1..n :
                /\ i # j
                /\ RatLeq(values[i], values[j])
                /\ m = RatDiv(RatAdd(values[i], values[j]), RatOfInt(2))
                /\ ~\E k \in 1..n : RatLess(values[i], values[k]) /\ RatLess(values[k], values[j])

One == RatOfInt(1)
Zero == RatOfInt(0)

ReferenceTransform == outcome.value.transforms[outcome.value.referenceStop]

C15_MonotonicLightness ==
  (SmoothDone /\ outcome._tag = "Success"
     /\ RatLess(One, input.pattern.transforms[100].lightnessMultiplier)
     /\ RatLess(input.pattern.transforms[1000].lightnessMultiplier, One))
    => \A i \in 1..(Len(StopPositions) - 1) :
         RatLess(outcome.value.transforms[StopPositions[i + 1]].lightnessMultiplier,
                 outcome.value.transforms[StopPositions[i]].lightnessMultiplier)

\* the parabola through (0, v100), (4/9, 1), (1, v1000) at x = k/9, written
\* out: ((9 - 5 v100 - 4 v1000) k (9 - k) + 20 (v1000 - v100) k + 180 v100) / 180
StatedCurve(v100, v1000, position) ==
  LET k == (position - 100) \div 100
      y == RatDiv(
             RatAdd(RatAdd(
               RatMul(RatSub(RatSub(RatOfInt(9), RatMul(RatOfInt(5), v100)),
                             RatMul(RatOfInt(4), v1000)),
                      RatOfInt(k * (9 - k))),
               RatMul(RatSub(v1000, v100), RatOfInt(20 * k))),
               RatMul(RatOfInt(180), v100)),
             RatOfInt(180))
  IN  IF RatLess(y, Zero) THEN Zero ELSE y

C17_CircularMeanHue ==
  (SmoothDone /\ outcome._tag = "Success") =>
    LET raw == HueShiftsOf(input.pattern)
        hue == outcome.value.transforms[100].hueShiftDegrees
    IN  /\ \A position \in StopPositionSet :
             outcome.value.transforms[position].hueShiftDegrees = hue
        /\ (\A i \in 1..Len(raw) : raw[i] = raw[1]) => hue = raw[1]
        /\ (\A i \in 1..Len(raw) : raw[i] \in {RatOfInt(-175), RatOfInt(175)})
             => hue \in {RatOfInt(180), RatOfInt(-180)}
        /\ hue = circularMean(raw).right

\* C18: smoothPattern leaves its input as it was and returns a pattern
\* named "<name>-smoothed" with the input's referenceStop and metadata and
\* with transforms for exactly the ten stop positions.
C18_State ==
  (SmoothDone /\ outcome._tag = "Success") =>
    /\ outcome.value.name = input.pattern.name \o "-smoothed"
    /\ outcome.value.referenceStop = input.pattern.referenceStop
    /\ outcome.value.metadata = input.pattern.metadata
    /\ DOMAIN outcome.value.transforms = {100, 200, 300, 400, 500, 600, 700, 800, 900, 1000}
    /\ DOMAIN outcome.value = DOMAIN input.pattern
    /\ input \in SmoothPatternInputs

C18_NewPattern ==
  /\ []C18_State
  /\ [][(op \in SmoothOps) => (input' = input)]_vars

C18_Witness ==
  /\ op = "smoothPattern" /\ pc = "done" /\ outcome._tag = "Success"
  /\ outcome.value.name = "learned-pattern-smoothed"
  /\ outcome.value.referenceStop = 300
  /\ outcome.value.transforms[200] # input.pattern.transforms[200]

\* C19: extractPatterns fails with PatternExtractionError and returns no
\* pattern when the palette list is empty or some palette, wherever it
\* stands in the list, has no stop at the reference position.
C19_ExtractionFails ==
  (ExtractDone /\ (\/ input.palettes = <<>>
                   \/ \E i \in 1..Len(input.palettes) :
                        ~HasStop(input.palettes[i], input.referenceStop)))
    => /\ outcome._tag = "Failure"
       /\ outcome.error._tag = "PatternExtractionError"
       /\ outcome.error.paletteCount = Len(input.palettes)

\* three palettes, the last one without the reference stop
C19_Witness ==
  /\ ExtractDone /\ outcome._tag = "Failure"
  /\ Len(input.palettes) = 3
  /\ HasStop(input.palettes[1], input.referenceStop)
  /\ HasStop(input.palettes[2], input.referenceStop)
  /\ ~HasStop(input.palettes[3], input.referenceStop)

\* every transform is the median of the per-palette values, under a rule
\* for the divisor
C20Medians(floored) ==
  (ExtractDone /\ outcome._tag = "Success") =>
    \A position \in StopPositionSet :
      /\ IsMedianOf(outcome.value.transforms[position].lightnessMultiplier,
                    StatedValues(position, "lightness", floored))
      /\ IsMedianOf(outcome.value.transforms[position].chromaMultiplier,
                    StatedValues(position, "chroma", floored))
      /\ IsMedianOf(outcome.value.transforms[position].hueShiftDegrees,
                    StatedValues(position, "hue", floored))

\* C20 (as amended): at every stop lightnessMultiplier, chromaMultiplier and
\* hueShiftDegrees are the medians over the supplied palettes of stop.l /
\* ref.l, stop.c / ref.c and hueDifference(ref.h, stop.h), where a reference
\* lightness or chroma that is exactly 0 is replaced by 0.001 and any other
\* value, however small, divides as it is.
C20_MedianRatios == C20Medians(FALSE)

\* C20 as stated: the divisors are floored to 0.001.
C20_AsStated == C20Medians(TRUE)

\* three palettes, one of them with a reference chroma of 0.0005
C20_Witness ==
  /\ ExtractDone /\ outcome._tag = "Success"
  /\ Len(input.palettes) = 3
  /\ input.palettes[1].name = "blue" /\ input.palettes[2].name = "faint"
  /\ input.palettes[3].name = "red"
  /\ input.referenceStop = 500

\* ------------------------------------------------- hue and gamut properties
\* C21 (as amended): hueDifference(h1, h2) is congruent to h2 - h1 modulo
\* 360 and lies in the half-open interval [-180, 180): hues exactly opposite
\* each other give -180, never 180.
C21_HueDifference ==
  (op = "hueDifference" /\ pc = "done") =>
    /\ outcome._tag = "Success"
    /\ (outcome.value - (input.h2 - input.h1)) % 360 = 0
    /\ outcome.value >= -180 /\ outcome.value < 180
    /\ ((input.h2 - input.h1) % 360 = 180) => outcome.value = -180
    /\ (input.h1 = 350 /\ input.h2 = 10) => outcome.value = 20
    /\ (input.h1 = 10 /\ input.h2 = 350) => outcome.value = -20
    /\ (input.h1 = 0 /\ input.h2 = 359) => outcome.value = -1

\* C21 as stated: the result lies in (-180, 180].
C21_AsStated ==
  (op = "hueDifference" /\ pc = "done") =>
    /\ (outcome.value - (input.h2 - input.h1)) % 360 = 0
    /\ outcome.value > -180 /\ outcome.value <= 180

\* hues 10 and 190, exactly opposite
C21_Witness ==
  /\ op = "hueDifference" /\ pc = "done"
  /\ input.h1 = 10 /\ input.h2 = 190 /\ outcome.value = -180

\* C22 as stated: normalizeHue(h) is, for every finite h, the value in
\* [0, 360) congruent to h modulo 360 (-90 gives 270, -450 gives 270, 360
\* and 720 give 0, 450 gives 90), and normalizing twice changes nothing.
C22_NormalizeHue ==
  (op = "normalizeHue" /\ pc = "done") =>
    /\ outcome._tag = "Success"
    /\ outcome.value >= 0 /\ outcome.value < 360
    /\ input.hue # TinyNegative => (outcome.value - input.hue) % 360 = 0
    /\ normalizeHue(outcome.value) = outcome.value
    /\ input.hue \in {-90, -450} => outcome.value = 270
    /\ input.hue \in {360, 720} => outcome.value = 0
    /\ input.hue = 450 => outcome.value = 90

C28_ViableImpliesSuccess ==
  (ViableDone /\ outcome._tag = "Success" /\ outcome.value = TRUE) =>
    IsRight(applyOpticalAppearance(input.reference, input.target))

\* viable through clamping: the candidate is outside the gamut and loses
\* less than half of its chroma
C28_Witness ==
  /\ ViableDone /\ outcome._tag = "Success" /\ outcome.value = TRUE
  /\ ~isDisplayable(Candidate(input.reference, input.target))
  /\ input.reference.c > 0 /\ input.target.c > 0 /\ input.target.h # NaN

\* C29 (as amended): a color returned by applyOpticalAppearance for a
\* chromatic reference and a chromatic target is displayable.  The two
\* special cases return without a gamut test: for an achromatic reference
\* the gray of the reference's lightness, for an achromatic target the
\* reference with its hue normalized, each displayable exactly when the
\* reference is.
C29_DisplayableResult ==
  (OpticalDone /\ outcome._tag = "Success") =>
    /\ (input.reference.c # 0 /\ input.target.c # 0 /\ input.target.h # NaN)
         => isDisplayable(outcome.value)
    /\ input.reference.c = 0
         => /\ outcome.value.c = 0 /\ outcome.value.l = input.reference.l
            /\ isDisplayable(outcome.value) <=> isDisplayable(input.reference)
    /\ (input.reference.c # 0 /\ (input.target.c = 0 \/ input.target.h = NaN))
         => /\ outcome.value = [input.reference EXCEPT !.h = normalizeHue(input.reference.h)]
            /\ isDisplayable(outcome.value) <=> isDisplayable(input.reference)

\* C29 as stated: every color returned is displayable.
C29_AsStated ==
  (OpticalDone /\ outcome._tag = "Success") => isDisplayable(outcome.value)

\* a clamped result in the general case
C29_Witness ==
  /\ OpticalDone /\ outcome._tag = "Success"
  /\ input.reference.c > 0 /\ input.target.c > 0 /\ input.target.h # NaN
  /\ ~isDisplayable(Candidate(input.reference, input.target))
  /\ isDisplayable(outcome.value)

\* ---------------------------------------------- batch ordering and loading
\* the palette generateBatch makes of a pair under the loaded pattern
StatedPalette(pair) ==
  [name |-> input.groupName \o "-" \o pair.color,
   anchorStop |-> pair.stop,
   inputColor |-> pair.color,
   outputFormat |-> input.outputFormat,
   pattern |-> pattern]

\* C27: for a given loaded pattern and list of pairs, generateBatch ends
\* with the same palettes (the successful pairs in input order) and the
\* same failures (the failed pairs in input order) whatever the order in
\* which the items ran and completed; each item's outcome is determined by
\* its own color and stop and the pattern.
C27_OrderIndependent ==
  GenerateBatchDone =>
    /\ \A i \in 1..Len(input.pairs) :
         results[<<i, 1>>] =
           IF ValidPair(input.pairs[i])
           THEN Right(StatedPalette(input.pairs[i]))
           ELSE Left([_tag |-> "GeneratePaletteError",
                      message |-> "Failed to generate palette for " \o input.pairs[i].color])
    /\ acc.palettes = [k \in 1..Len(GoodPairs) |-> StatedPalette(GoodPairs[k])]
    /\ acc.failures =
         [k \in 1..Len(BadPairs) |->
            [color |-> BadPairs[k].color, stop |-> BadPairs[k].stop,
             error |-> "Failed to generate palette for " \o BadPairs[k].color]]
    /\ outcome._tag = "Success"
         => /\ outcome.value.palettes = acc.palettes
            /\ outcome.value.failures = acc.failures

\* three items completed last first; the first and the last succeeded
C27_Witness ==
  /\ GenerateBatchDone /\ outcome._tag = "Success"
  /\ Len(input.pairs) = 3
  /\ completed = << <<3, 1>>, <<2, 1>>, <<1, 1>> >>
  /\ ValidPair(input.pairs[1]) /\ ValidPair(input.pairs[3])
  /\ input.pairs[1].color # input.pairs[3].color

\* C30 as stated: handleOneToManyTransformation loads the pattern exactly
\* once per invocation, however many targets there are, and every palette
\* it generates comes from that one pattern.
C30_HandlerLoadsOnce ==
  op = "handleOneToManyTransformation" =>
    /\ loads <= 1
    /\ \A k \in 1..Len(displayed) : displayed[k].pattern = displayed[1].pattern
    /\ (pc = "done" /\ outcome._tag = "Success") => loads = 1

\* ===================================================================
\* The generate command: mode detection (modes/resolver.ts) and option
\* validation (validation.ts, and the earlier validators of part_011)
\* ===================================================================
\* A color option is a text made of entries joined by "," or by a newline.
\* An entry is a color with an optional "::stop", or a transformation
\* reference>target::stop, whose targets may be grouped in parentheses.
\* An optional stop is a sequence of length at most one.
MaxEntries == 2
MaxPrompts == 3

\* String.prototype.includes on the text of a color option
includes(text, part) ==
  LET entries == text.entries
      some(P(_)) == \E i \in 1..Len(entries) : P(entries[i])
      isArrow(e) == e.kind = "transformation"
      isGroup(e) == isArrow(e) /\ e.grouped
      isList(e) == isArrow(e) /\ Len(e.targets) > 1
      hasStop(e) == e.stop # <<>>
  IN  CASE part = "," -> (Len(entries) > 1 /\ text.separator = ",") \/ some(isList)
        [] part = "\n" -> Len(entries) > 1 /\ text.separator = "\n"
        [] part = "::" -> some(hasStop)
        [] part = ">" -> some(isArrow)
        [] part = ">(" -> some(isGroup)

\* the ColorString schema decoder: a non-empty string that denotes a color
ColorString(value) ==
  IF value \in {"#2D72D2", "#238551", "#DB2C6F"} THEN Right(value) ELSE Left("ParseError")

\* the decoders of the schemas the validators use
Decode(schema, value) ==
  LET literal(S) == IF value \in S THEN Right(value) ELSE Left("ParseError")
  IN  CASE schema = "ColorString" -> ColorString(value)
        [] schema = "StopPosition" -> literal(StopPositionSet)
        [] schema = "ColorSpace" -> literal({"hex", "rgb", "oklch", "oklab"})
        [] schema = "ExportTarget" -> literal({"none", "clipboard", "json"})

\* transform-parser: the text holds a ">"
isTransformationSyntax(text) == includes(text, ">")

\* transform-parser: the whole text is one reference>(t1,t2)::stop
isOneToManyTransformation(text) == Len(text.entries) = 1 /\ includes(text, ">(")

\* transform-parser: every entry becomes a transformation; a one-to-many
\* transformation has targets, a single one has a target
parseBatchTransformations(text) ==
  LET parsed(e) ==
        IF e.grouped
        THEN [reference |-> e.reference, targets |-> e.targets, stop |-> e.stop]
        ELSE [reference |-> e.reference, target |-> e.targets[1], stop |-> e.stop]
  IN  IF \A i \in 1..Len(text.entries) : text.entries[i].kind = "transformation"
      THEN Right([i \in 1..Len(text.entries) |-> parsed(text.entries[i])])
      ELSE Left("TransformationParseError")

\* transform-parser: the text as one transformation
parseAnyTransformation(text) ==
  LET all == parseBatchTransformations(text)
  IN  IF Len(text.entries) = 1 /\ IsRight(all) THEN Right(all.right[1])
      ELSE Left("TransformationParseError")

\* batch-parser: every entry becomes a color with an optional stop
parseBatchPairsInput(text) ==
  IF \A i \in 1..Len(text.entries) : text.entries[i].kind = "ColorString"
  THEN Right([i \in 1..Len(text.entries) |->
                [color |-> text.entries[i].color, stop |-> text.entries[i].stop]])
  ELSE Left("ParseError")

\* the decoders of modes/types.ts: a mode passes when its colors are color
\* strings and its stops are stop positions; a transformation needs a stop,
\* a palette pair may leave it out
ExecutionMode(mode) ==
  LET color(c) == IsRight(ColorString(c))
      optional(s) == s = <<>> \/ IsRight(Decode("StopPosition", s[1]))
      required(s) == s # <<>> /\ optional(s)
      all(s, P(_)) == \A i \in 1..Len(s) : P(s[i])
      pair(p) == color(p.color) /\ optional(p.stop)
      single(t) == color(t.reference) /\ color(t.target) /\ required(t.stop)
      ok == CASE mode._tag = "SinglePalette" -> color(mode.color) /\ optional(mode.stop)
              [] mode._tag = "BatchPalettes" -> all(mode.pairs, pair)
              [] mode._tag = "SingleTransform" -> single(mode.input)
              [] mode._tag = "ManyTransform" ->
                   /\ color(mode.reference) /\ required(mode.stop)
                   /\ mode.targets # <<>> /\ all(mode.targets, color)
              [] mode._tag = "BatchTransform" ->
                   mode.transformations # <<>> /\ all(mode.transformations, single)
  IN  IF ok THEN Right(mode) ELSE Left("ParseError")

isInteractive(options) == options.colorOpt = None

detectTransformationMode(colorInput) ==
  LET hasTargets(t) == "targets" \in DOMAIN t
      modeOf(t) ==
        IF hasTargets(t)
        THEN ExecutionMode([_tag |-> "ManyTransform", reference |-> t.reference,
                            targets |-> t.targets, stop |-> t.stop])
        ELSE ExecutionMode([_tag |-> "SingleTransform", input |-> t])
      one == parseAnyTransformation(colorInput)
      many == parseBatchTransformations(colorInput)
      notTargets(t) == ~hasTargets(t)
  IN  IF isOneToManyTransformation(colorInput)
      THEN IF IsLeft(one) THEN one ELSE modeOf(one.right)
      ELSE IF includes(colorInput, ",") \/ includes(colorInput, "\n")
      THEN IF IsLeft(many) THEN many
           ELSE IF Len(many.right) = 1 THEN modeOf(many.right[1])
           ELSE ExecutionMode([_tag |-> "BatchTransform",
                               transformations |-> SelectSeq(many.right, notTargets)])
      ELSE IF IsLeft(one) THEN one ELSE modeOf(one.right)

detectBatchPaletteMode(colorInput) ==
  LET pairs == parseBatchPairsInput(colorInput)
  IN  IF IsLeft(pairs) THEN pairs
      ELSE ExecutionMode([_tag |-> "BatchPalettes", pairs |-> pairs.right])

detectSinglePaletteMode(options) ==
  LET text == options.colorOpt.value
      \* the string a text without ">", "," and "::" stands for
      colorStr == JoinStrings([i \in 1..Len(text.entries) |-> text.entries[i].color],
                              text.separator)
      color == ColorString(colorStr)
      stop == IF options.stopOpt = None THEN Right(0) ELSE Decode("StopPosition", options.stopOpt.value)
  IN  IF IsLeft(color) THEN color
      ELSE IF IsLeft(stop) THEN stop
      ELSE ExecutionMode([_tag |-> "SinglePalette", color |-> color.right,
                          stop |-> IF options.stopOpt = None THEN <<>> ELSE <<stop.right>>])

detectModeImpl(options) ==
  LET interactive == isInteractive(options)
      colorInput == options.colorOpt.value
      decoded(mode) ==
        IF IsLeft(mode) THEN mode
        ELSE Right([mode |-> mode.right, isInteractive |-> interactive])
  IN  IF options.colorOpt = None \/ colorInput.entries = <<>>
      THEN Right([mode |-> [_tag |-> "SinglePalette", color |-> "", stop |-> <<>>],
                  isInteractive |-> TRUE])
      ELSE IF isTransformationSyntax(colorInput)
      THEN decoded(detectTransformationMode(colorInput))
      ELSE IF includes(colorInput, ",") \/ includes(colorInput, "::")
      THEN decoded(detectBatchPaletteMode(colorInput))
      ELSE decoded(detectSinglePaletteMode(options))

\* what the user can do at a prompt: cancel it, type any non-empty text at
\* the color prompt, or pick one of the offered options at the others
PromptReplies(kind) ==
  {[cancelled |-> TRUE]} \cup
  {[cancelled |-> FALSE, value |-> v] :
     v \in CASE kind = "ColorString" -> {"#238551", "invalid-color"}
             [] kind = "StopPosition" -> {100, 500}
             [] kind = "ColorSpace" -> {"hex", "oklch"}
             [] kind = "ExportTarget" -> {"none", "json"}}

\* promptForColor, promptForStop, promptForOutputFormat, promptForExportTarget:
\* handleCancel, then the decoder of the schema the prompt is for
promptFor(kind, reply) ==
  IF reply.cancelled THEN Left("CancelledError") ELSE Decode(kind, reply.value)

CliInputsOf(o) ==
  LET ColorEntry(color, stop) == [kind |-> "color", color |-> color, stop |-> stop]
      TransformationEntry(reference, targets, grouped, stop) ==
        [kind |-> "transformation", reference |-> reference, targets |-> targets,
         grouped |-> grouped, stop |-> stop]
      colors == {"#2D72D2", "invalid-color"}
      entries ==
        {ColorEntry(c, s) : c \in colors, s \in {<<>>, <<500>>, <<999>>}} \cup
        {TransformationEntry(r, <<"#238551">>, g, s) :
           r \in colors, g \in BOOLEAN, s \in {<<500>>, <<999>>}} \cup
        {TransformationEntry(r, <<"#238551", "#DB2C6F">>, TRUE, s) :
           r \in colors, s \in {<<500>>, <<999>>}}
      texts == {[separator |-> sep, entries |-> es] :
                  sep \in {",", "\n"}, es \in SeqsUpTo(entries, MaxEntries)}
      options(kind) ==
        {None} \cup
        {Some(v) : v \in CASE kind = "ColorString" -> {"#2D72D2", "invalid-color", ""}
                           [] kind = "StopPosition" -> {500, 999}
                           [] kind = "ColorSpace" -> {"hex", "xyz"}
                           [] kind = "ExportTarget" -> {"json", "ftp"}}
  IN  CASE o = "detectMode" ->
             {[colorOpt |-> c, stopOpt |-> s] :
                c \in {None} \cup {Some(t) : t \in {x \in texts :
                                     x.separator = "," \/ Len(x.entries) > 1}},
                s \in {None, Some(500), Some(999)}}
        [] OTHER ->
             UNION { {[kind |-> k, opt |-> v] : v \in options(k)} :
                       k \in {"ColorString", "StopPosition", "ColorSpace", "ExportTarget"} }

InitCli ==
  /\ op \in {"detectMode", "createValidator", "validateColor (part_011)"}
  /\ input \in CliInputsOf(op)
  /\ pc = "start"
  /\ loads = 0
  /\ pattern = NoPattern
  /\ NewTasks({})
  /\ completed = <<>>
  /\ acc = NoAcc
  /\ clockReads = <<>>
  /\ displayed = <<>>
  /\ outcome = NoOutcome

DetectMode ==
  /\ op = "detectMode" /\ pc = "start"
  /\ LET result == detectModeImpl(input)
     IN  outcome' = IF IsLeft(result) THEN Failure(result.left) ELSE Success(result.right)
  /\ pc' = "done"
  /\ UNCHANGED <<op, input, loads, pattern, status, results, completed, acc,
                 clockReads, displayed>>

\* validation.ts 55-66: the option is validated, or the prompt is shown and
\* its answer validated; a ParseError leads to logErrorAndRetry, any other
\* error is the validator's failure
CreateValidatorStart ==
  /\ op = "createValidator" /\ pc = "start"
  /\ \E reply \in PromptReplies(input.kind) :
       LET prompted == promptFor(input.kind, reply)
           result == IF input.opt = None
                     THEN IF IsLeft(prompted) THEN prompted
                          ELSE Decode(input.kind, prompted.right)
                     ELSE Decode(input.kind, input.opt.value)
       IN  /\ displayed' = IF input.opt = None
                           THEN Append(displayed, [event |-> "prompt", reply |-> reply])
                           ELSE displayed
           /\ IF IsRight(result)
              THEN outcome' = Success(result.right) /\ pc' = "done"
              ELSE IF result.left = "ParseError"
              THEN outcome' = outcome /\ pc' = "logErrorAndRetry"
              ELSE outcome' = Failure(result.left) /\ pc' = "done"
  /\ UNCHANGED <<op, input, loads, pattern, status, results, completed, acc, clockReads>>

\* validation.ts 48-53
LogErrorAndRetry ==
  /\ op = "createValidator" /\ pc = "logErrorAndRetry"
  /\ Len(SelectSeq(displayed, LAMBDA e : e.event = "prompt")) < MaxPrompts
  /\ \E reply \in PromptReplies(input.kind) :
       LET prompted == promptFor(input.kind, reply)
           result == IF IsLeft(prompted) THEN prompted
                     ELSE Decode(input.kind, prompted.right)
       IN  /\ displayed' = displayed \o <<[event |-> "error"], [event |-> "prompt", reply |-> reply]>>
           /\ IF IsRight(result)
              THEN outcome' = Success(result.right) /\ pc' = "done"
              ELSE IF result.left = "ParseError"
              THEN outcome' = outcome /\ pc' = "logErrorAndRetry"
              ELSE outcome' = Failure(result.left) /\ pc' = "done"
  /\ UNCHANGED <<op, input, loads, pattern, status, results, completed, acc, clockReads>>

\* part_011 175-184, the head of the loop: Effect.either turns every failure
\* of the prompt or of the schema into a Left, and a Right is returned
ValidateLoopHead ==
  /\ op = "validateColor (part_011)" /\ pc \in {"start", "loop"}
  /\ Len(SelectSeq(displayed, LAMBDA e : e.event = "prompt")) < MaxPrompts
  /\ \E reply \in PromptReplies(input.kind) :
       LET result == IF input.opt = None THEN promptFor(input.kind, reply)
                     ELSE Decode(input.kind, input.opt.value)
       IN  /\ displayed' = IF input.opt = None
                           THEN Append(displayed, [event |-> "prompt", reply |-> reply])
                           ELSE displayed
           /\ IF IsRight(result)
              THEN outcome' = Success(result.right) /\ pc' = "done"
              ELSE outcome' = outcome /\ pc' = "retry"
  /\ UNCHANGED <<op, input, loads, pattern, status, results, completed, acc, clockReads>>

\* part_011 185-192: the error is logged and the prompt shown outside
\* Effect.either, so its failure is the validator's; its answer is validated
\* and a rejected answer leads back to the head of the loop
ValidateLoopRetry ==
  /\ op = "validateColor (part_011)" /\ pc = "retry"
  /\ Len(SelectSeq(displayed, LAMBDA e : e.event = "prompt")) < MaxPrompts
  /\ \E reply \in PromptReplies(input.kind) :
       LET prompted == promptFor(input.kind, reply)
           result == IF IsLeft(prompted) THEN prompted
                     ELSE Decode(input.kind, prompted.right)
       IN  /\ displayed' = displayed \o <<[event |-> "error"], [event |-> "prompt", reply |-> reply]>>
           /\ IF IsLeft(prompted)
              THEN outcome' = Failure(prompted.left) /\ pc' = "done"
              ELSE IF IsRight(result)
              THEN outcome' = Success(result.right) /\ pc' = "done"
              ELSE outcome' = outcome /\ pc' = "loop"
  /\ UNCHANGED <<op, input, loads, pattern, status, results, completed, acc, clockReads>>

NextCli ==
  \/ DetectMode
  \/ CreateValidatorStart
  \/ LogErrorAndRetry
  \/ ValidateLoopHead
  \/ ValidateLoopRetry

SpecCli == InitCli /\ [][NextCli]_vars

\* ---------------------------------------------- mode detection properties
DetectDone == op = "detectMode" /\ pc = "done"

\* the colors and stops of an entry are all valid
EntryIsValid(e) ==
  LET color(c) == c \in {"#2D72D2", "#238551", "#DB2C6F"}
      stop(s) == s = <<>> \/ s[1] \in {100, 200, 300, 400, 500, 600, 700, 800, 900, 1000}
  IN  IF e.kind = "color" THEN color(e.color) /\ stop(e.stop)
      ELSE /\ color(e.reference) /\ e.stop # <<>> /\ stop(e.stop)
           /\ \A i \in 1..Len(e.targets) : color(e.targets[i])

\* C24: detectMode classifies the color option in priority order. Without a
\* color option the result is SinglePalette with isInteractive = TRUE and
\* nothing validated. With one, isInteractive is FALSE; a text with
\* transformation syntax gives a transform mode (ManyTransform for one
\* ref>(t1,t2)::stop, SingleTransform for one ref>target::stop); otherwise a
\* text with "," or "::" gives BatchPalettes with one pair per entry;
\* otherwise the result is SinglePalette with the validated color and the stop
\* option; and an invalid color or stop makes detection fail.
C24_DetectModePriority ==
  DetectDone =>
    LET given == input.colorOpt # None
        text == input.colorOpt.value
        entries == text.entries
        ok == outcome._tag = "Success"
        mode == outcome.value.mode
        transformation ==
          given /\ \E i \in 1..Len(entries) : entries[i].kind = "transformation"
        listed ==
          /\ given /\ ~transformation
          /\ \/ Len(entries) > 1 /\ text.separator = ","
             \/ \E i \in 1..Len(entries) : entries[i].stop # <<>>
        plain == given /\ ~transformation /\ ~listed
        plainIsValid ==
          /\ Len(entries) = 1 /\ EntryIsValid(entries[1])
          /\ input.stopOpt \in {None} \cup {Some(s) : s \in StopPositionSet}
    IN  /\ ~given =>
             outcome = Success([mode |-> [_tag |-> "SinglePalette", color |-> "",
                                          stop |-> <<>>],
                                isInteractive |-> TRUE])
        /\ (given /\ ok) => outcome.value.isInteractive = FALSE
        /\ (transformation /\ ok) =>
             mode._tag \in {"SingleTransform", "ManyTransform", "BatchTransform"}
        /\ (transformation /\ ok /\ Len(entries) = 1) =>
             mode._tag = IF entries[1].grouped THEN "ManyTransform" ELSE "SingleTransform"
        /\ (listed /\ ok) =>
             mode._tag = "BatchPalettes" /\ Len(mode.pairs) = Len(entries)
        /\ (listed /\ \E i \in 1..Len(entries) : ~EntryIsValid(entries[i])) => ~ok
        /\ (plain /\ ~plainIsValid) => ~ok
        /\ (plain /\ ok) =>
             /\ mode._tag = "SinglePalette"
             /\ mode.color = entries[1].color
             /\ mode.stop = IF input.stopOpt = None THEN <<>> ELSE <<input.stopOpt.value>>

\* C25: for a color option of N >= 2 comma- or newline-separated
\* transformations, detectMode returns BatchTransform with exactly N
\* transformations, the i-th one parsed from the i-th entry.
C25_BatchTransformComplete ==
  LET entries == input.colorOpt.value.entries
      mode == outcome.value.mode
  IN  ( /\ DetectDone /\ input.colorOpt # None /\ Len(entries) >= 2
        /\ \A i \in 1..Len(entries) :
             entries[i].kind = "transformation" /\ EntryIsValid(entries[i]) )
      => /\ outcome._tag = "Success"
         /\ mode._tag = "BatchTransform"
         /\ Len(mode.transformations) = Len(entries)
         /\ \A i \in 1..Len(entries) :
              /\ mode.transformations[i].reference = entries[i].reference
              /\ mode.transformations[i].stop = entries[i].stop

\* ------------------------------------------- option validation properties
\* C26: an option validator returns a valid option without prompting and
\* prompts for an invalid or missing one; it only returns values that pass
\* the schema; it fails only with CancelledError, as soon as a prompt is
\* cancelled; and every invalid answer is followed by a logged error and
\* another prompt.
C26_ValidatorContract ==
  (op \in {"createValidator", "validateColor (part_011)"}) =>
    LET valid(v) == IsRight(Decode(input.kind, v))
        validOption == input.opt # None /\ valid(input.opt.value)
        isPrompt(i) == displayed[i].event = "prompt"
        cancelled(i) == isPrompt(i) /\ displayed[i].reply.cancelled
        rejected(i) ==
          isPrompt(i) /\ ~displayed[i].reply.cancelled /\ ~valid(displayed[i].reply.value)
    IN  /\ (pc = "done" /\ validOption) =>
             displayed = <<>> /\ outcome = Success(input.opt.value)
        /\ (pc = "done" /\ ~validOption) => \E i \in 1..Len(displayed) : isPrompt(i)
        /\ outcome._tag = "Success" => valid(outcome.value)
        /\ outcome._tag = "Failure" => outcome.error = "CancelledError"
        /\ \A i \in 1..Len(displayed) :
             /\ cancelled(i) =>
                  i = Len(displayed) /\ outcome = Failure("CancelledError")
             /\ rejected(i) =>
                  \/ i = Len(displayed) /\ pc # "done"
                  \/ /\ i + 2 <= Len(displayed)
                     /\ displayed[i + 1].event = "error"
                     /\ isPrompt(i + 2)

====
